---- MODULE Spec2Model ----
(***************************************************************************)
(* Article acquisition pipeline of the MMT response suite: the URL         *)
(* classifier, the extraction cascade, the content cache and the           *)
(* submission state machine of apps/article_critique.                      *)
(*                                                                         *)
(* Python strings that the code inspects character by character (host      *)
(* names, domain tables) are sequences of one-character strings.  Texts,   *)
(* titles and error texts that the code only copies or tests for           *)
(* emptiness are opaque strings.  A formatted message (f-string, join) is  *)
(* the sequence of the pieces it is concatenated from.                     *)
(***************************************************************************)
EXTENDS Integers, Sequences, FiniteSets, TLC

(* ------------------------------------------------------------------ *)
(* Bounds of the model                                                 *)
(* ------------------------------------------------------------------ *)
\* number of pipeline runs started on the submission
MaxRuns == 2
\* latest clock value (hours) the model advances to
MaxNow == 30

\* hours the clock advances in one step
TickHours == 25

(* ------------------------------------------------------------------ *)
(* Values                                                              *)
(* ------------------------------------------------------------------ *)
\* Python's None, and its rendering inside an f-string
None == "<None>"
Str(x) == IF x = None THEN "None" ELSE x

HostFT == <<"w","w","w",".","F","T",".","c","o","m">>
HostMicrosoft == <<"m","i","c","r","o","s","o","f","t",".","c","o","m">>
HostBBC == <<"w","w","w",".","b","b","c",".","c","o",".","u","k">>

UrlFT == "https://www.FT.com/a"
UrlMicrosoft == "https://microsoft.com/a"
UrlBBC == "https://www.bbc.co.uk/a"
UrlTweet == "https://x.com/u/status/1"
HostX == <<"x",".","c","o","m">>

\* the URLs a submission is made with
URLS == {UrlFT, UrlMicrosoft, UrlBBC}

\* what date_parser.parse makes of an article:published_time tag: a datetime object
PUBLISHED == "datetime(2025, 11, 26)"

\* pages a fetcher can extract: article text (non-empty) and metadata; the third
\* page carries an article:published_time tag
PAGES == {[text |-> "text1",
           metadata |-> [title |-> "", author |-> "", publication_date |-> None]],
          [text |-> "text2",
           metadata |-> [title |-> "page title", author |-> "page author",
                         publication_date |-> None]],
          [text |-> "text3",
           metadata |-> [title |-> "page title", author |-> "page author",
                         publication_date |-> PUBLISHED]]}
\* the text a user pastes into the text form
PASTED == "pasted text"
\* error text of a fetcher whose request fails, returned or raised
FETCH_ERROR == "Request timed out"
\* text of an exception of the analysis API
API_ERROR == "overloaded"
\* text of an exception inside a generator block
GENERATOR_ERROR == "generator failed"

STATUS_CHOICES == {"submitted", "extracting", "analyzing", "generating", "completed", "failed"}

PUBLICATION_DOMAINS ==
  << <<<<"t","h","e","g","u","a","r","d","i","a","n",".","c","o","m">>, "guardian">>,
     <<<<"b","b","c",".","c","o",".","u","k">>, "bbc">>,
     <<<<"b","b","c",".","c","o","m">>, "bbc">>,
     <<<<"i","n","d","e","p","e","n","d","e","n","t",".","c","o",".","u","k">>, "independent">>,
     <<<<"f","t",".","c","o","m">>, "ft">>,
     <<<<"t","h","e","t","i","m","e","s",".","c","o",".","u","k">>, "times">>,
     <<<<"t","e","l","e","g","r","a","p","h",".","c","o",".","u","k">>, "telegraph">>,
     <<<<"e","c","o","n","o","m","i","s","t",".","c","o","m">>, "economist">>,
     <<<<"s","p","e","c","t","a","t","o","r",".","c","o",".","u","k">>, "spectator">>,
     <<<<"n","e","w","s","t","a","t","e","s","m","a","n",".","c","o","m">>, "newstatesman">>,
     <<<<"m","i","r","r","o","r",".","c","o",".","u","k">>, "mirror">>,
     <<<<"d","a","i","l","y","m","a","i","l",".","c","o",".","u","k">>, "daily_mail">>,
     <<<<"e","x","p","r","e","s","s",".","c","o",".","u","k">>, "express">>,
     <<<<"n","e","w","s",".","s","k","y",".","c","o","m">>, "sky_news">>,
     <<<<"i","t","v",".","c","o","m">>, "itv_news">>,
     <<<<"r","e","u","t","e","r","s",".","c","o","m">>, "reuters">>,
     <<<<"b","l","o","o","m","b","e","r","g",".","c","o","m">>, "bloomberg">>,
     <<<<"w","s","j",".","c","o","m">>, "wsj">>,
     <<<<"n","y","t","i","m","e","s",".","c","o","m">>, "nyt">> >>

PAYWALLED_SITES ==
  << <<"f","t",".","c","o","m">>,
     <<"t","h","e","t","i","m","e","s",".","c","o",".","u","k">>,
     <<"t","e","l","e","g","r","a","p","h",".","c","o",".","u","k">>,
     <<"e","c","o","n","o","m","i","s","t",".","c","o","m">>,
     <<"s","p","e","c","t","a","t","o","r",".","c","o",".","u","k">>,
     <<"w","s","j",".","c","o","m">>,
     <<"b","l","o","o","m","b","e","r","g",".","c","o","m">> >>

(* ------------------------------------------------------------------ *)
(* String functions                                                    *)
(* ------------------------------------------------------------------ *)
\* str.lower() on the characters that occur in the modelled hosts
LowerChar(c) == CASE c = "F" -> "f" [] c = "T" -> "t" [] c = "W" -> "w" [] OTHER -> c
Lower(s) == [i \in 1..Len(s) |-> LowerChar(s[i])]

\* needle in haystack (Python's substring test)
Contains(haystack, needle) ==
  \E i \in 1..(Len(haystack) - Len(needle) + 1) :
    SubSeq(haystack, i, i + Len(needle) - 1) = needle

WwwDot == <<"w","w","w",".">>

\* s.replace('www.', ''): every occurrence is removed, left to right
RECURSIVE ReplaceWww(_)
ReplaceWww(s) ==
  IF Len(s) = 0 THEN <<>>
  ELSE IF Len(s) >= 4 /\ SubSeq(s, 1, 4) = WwwDot
       THEN ReplaceWww(SubSeq(s, 5, Len(s)))
       ELSE <<Head(s)>> \o ReplaceWww(Tail(s))

\* urlparse(url).netloc of the modelled URLs
Netloc(url) ==
  CASE url = UrlFT -> HostFT
    [] url = UrlMicrosoft -> HostMicrosoft
    [] url = UrlBBC -> HostBBC
    [] url = UrlTweet -> HostX
    [] OTHER -> <<>>

\* get_url_hash: SHA-256 of the URL, taken to be collision free
get_url_hash(url) == <<"sha256", url>>

(* ------------------------------------------------------------------ *)
(* URL classifier                                                      *)
(* ------------------------------------------------------------------ *)
RECURSIVE FirstPublication(_, _)
FirstPublication(domain, i) ==
  IF i > Len(PUBLICATION_DOMAINS) THEN "other"
  ELSE IF Contains(domain, PUBLICATION_DOMAINS[i][1]) THEN PUBLICATION_DOMAINS[i][2]
       ELSE FirstPublication(domain, i + 1)

detect_publication(url) == FirstPublication(ReplaceWww(Lower(Netloc(url))), 1)

is_likely_paywalled(url) ==
  LET domain == ReplaceWww(Lower(Netloc(url)))
  IN  \E i \in 1..Len(PAYWALLED_SITES) : Contains(domain, PAYWALLED_SITES[i])

(* ------------------------------------------------------------------ *)
(* State                                                               *)
(* ------------------------------------------------------------------ *)
VARIABLES
  row,          \* the persisted ArticleSubmission row (id 0: not created yet)
  critique,     \* whether an ArticleCritique row exists for the submission
  responses,    \* response types with a QuickResponse row for the submission
  cache,        \* the ArticleContentCache table, a set of rows
  now,          \* timezone.now(), in hours
  pc,           \* position of the running process_article_submission
  submission,   \* the run's in-memory ArticleSubmission object
  extraction,   \* the run's local `extraction`
  result,       \* extract_article_with_cascade's local `result`
  idx,          \* position of the cascade loop in extraction_methods
  critique_data,\* the run's local `critique_data`
  ret,          \* what the last finished run returned
  runs,         \* number of runs started so far
  calls,        \* names of the strategy fetchers invoked by the current run
  outcomes,     \* what each of those invocations returned or raised
  lookups,      \* calls of extract_article_with_cache by the current run
  analysed,     \* article_text handed to generate_article_critique by the run
  startText,    \* the row's extracted_text when the current run started
  raised,       \* message of the exception the run's handler caught, <<>> if none
  genRaised,    \* generators that raised during the current run
  got,          \* what the last direct call of get_cached_content returned
  lastPut,      \* url, content and expiry of the last direct call of cache_content
  fetches,      \* log of the calls of the cached entry points, oldest first
  social_cache, \* the social ContentCache table, a set of rows
  client,       \* position and locals of each concurrent caller of a cache function
  db,           \* the cache row's primary key and lock, and what the puts wrote
  runner,       \* position and in-memory submission of each process that can run
                \* process_article_submission
  broker,       \* whether the view has dispatched, and the task messages queued
  script,       \* the submission and collaborator outcomes both dispatch paths are run with
  path,         \* per dispatch path: position, in-memory submission, database and writes
  arg,          \* the argument a pure function is applied to
  out,          \* the records the functions under study returned for arg
  verdict,      \* the value the function under study returned for arg, {} before the call
  twitter,      \* position, result and attempt log of the running fetch_twitter_content
  social,       \* the SocialMediaCritique row and the position and locals of process_social_critique
  bingo         \* one bingo card: marked squares, completed flag, the owner points, calls made

vars == <<row, critique, responses, cache, now, pc, submission,
          extraction, result, idx, critique_data, ret, runs, calls, outcomes,
          lookups, analysed, startText, raised, genRaised, got, lastPut, fetches,
          social_cache, client, db, runner, broker,
          script, path, arg, out, verdict, twitter,
          social, bingo>>

\* the argument and results of the functions applied on their own
pureVars == <<arg, out, verdict>>

\* the two dispatch paths run side by side
equivVars == <<script, path>>

\* the social fetchers and the social pipeline
socialVars == <<twitter, social>>

\* the state of the specifications that follow the dispatch
auxVars == <<equivVars, pureVars, socialVars, bingo>>

\* the state of the dispatch and of the processes it starts
dispatchVars == <<runner, broker>>

\* the state of the concurrent callers of the cache functions
raceVars == <<client, db>>

\* the state of the callers of the cached entry points
entryVars == <<fetches, social_cache>>

\* the state of callers other than the one pipeline run
callerVars == <<got, lastPut, entryVars, raceVars, dispatchVars, auxVars>>

\* the Celery worker, and the web request with its synchronous fallback
RUNNERS == {"worker", "request"}

\* concurrent callers of get_cached_content and of cache_content
GETTERS == {"get1", "get2"}
PUTTERS == {"put1", "put2"}

\* a caller that has not started: seen is the row it read ({} for none), pk that
\* row's primary key, ret what get_cached_content returned ({} for None)
IdleClient == [pc |-> "idle", seen |-> {}, pk |-> 0, content |-> {}, ret |-> {}]

\* no row yet: pk is the primary key of the URL's row (0: no row), lock the
\* caller that holds the row lock, written the (content, expires_at) pairs of
\* the puts so far
EmptyDb == [pk |-> 0, nextpk |-> 1, lock |-> "", written |-> {}]

\* the state of the one pipeline run and of its submission
runVars == <<row, critique, responses, pc, submission, extraction, result, idx,
             critique_data, ret, runs, calls, outcomes, lookups, analysed, startText,
             raised, genRaised>>

\* URLs the direct callers of the cache functions use
CACHE_URLS == {UrlFT, UrlBBC}

\* no call of cache_content yet: n counts the calls, content is {} or {the content}
NoPut == [n |-> 0, url |-> "", content |-> {}, expires_at |-> 0, raised |-> FALSE]

\* no call of get_cached_content yet: value is {} for None or {the content}
NoGet == [url |-> "", rows |-> {}, value |-> {}, at |-> 0, puts |-> 0]

\* an ArticleSubmission with the model's field defaults, not yet saved
NewSubmission ==
  [id |-> 0, original_url |-> "", archive_url |-> "", extraction_method |-> "direct",
   title |-> "", author |-> "", publication |-> "other", extracted_text |-> "",
   is_paywalled |-> FALSE, status |-> "submitted", error_message |-> <<>>]

EmptyMetadata == [title |-> "", author |-> "", publication_date |-> None]

\* extract_article_with_cascade's initial result
InitResult ==
  [success |-> FALSE, text |-> "", metadata |-> EmptyMetadata,
   extraction_method |-> "manual", archive_url |-> "", is_paywalled |-> FALSE,
   errors |-> <<>>]

NoCritiqueData == [summary |-> ""]
NoException == <<>>
NoReturn == [status |-> "none", message |-> <<>>]

\* generate_bingo_card: 25 squares, the centre one (position 12) marked as the
\* free space; the owner has no points yet and no call of mark_square was made
NewCard == [marked |-> {12}, completed |-> FALSE, points |-> 0, calls |-> 0, awards |-> 0]

\* a SocialMediaCritique with the model's field defaults, not yet saved
NewSocialCritique ==
  [id |-> 0, url |-> "", manual_transcript |-> "", platform |-> "other",
   source_text |-> "", status |-> "submitted", error_message |-> <<>>]

\* no run of process_social_critique yet: fetched is what fetch_with_cache gave
\* the run ({} before the call and after an exception), analysed the content
\* handed to generate_critique_with_claude, response the summary of the stored
\* CritiqueResponse
IdleSocial ==
  [pc |-> "idle", critique |-> NewSocialCritique, fetched |-> {}, fetch_raised |-> FALSE,
   analysed |-> {}, response |-> {}]

\* fetch_twitter_content's initial result
TwitterResult == [title |-> <<>>, author |-> "", text |-> "", description |-> "", error |-> None]

\* no call of fetch_twitter_content is running
IdleTwitter == [pc |-> "idle", i |-> 0, result |-> TwitterResult, tried |-> <<>>]

\* no submission has been made on the two dispatch paths yet
NoScript ==
  [set |-> FALSE, ext |-> InitResult, api_key |-> FALSE,
   api |-> [kind |-> "ok", error |-> None], made |-> {}]

\* a dispatch path before its submission: db is the path's ArticleSubmission
\* row, critique whether its ArticleCritique row exists, writes what the run
\* has persisted so far
IdlePath ==
  [pc |-> "idle", sub |-> NewSubmission, db |-> NewSubmission, critique |-> FALSE,
   writes |-> <<>>]

\* the state after construction of the pipeline, caches and dispatch
InitCore ==
  /\ row = NewSubmission
  /\ critique = FALSE
  /\ responses = {}
  /\ cache = {}
  /\ now = 0
  /\ pc = "none"
  /\ submission = NewSubmission
  /\ extraction = InitResult
  /\ result = InitResult
  /\ idx = 0
  /\ critique_data = NoCritiqueData
  /\ ret = NoReturn
  /\ runs = 0
  /\ calls = <<>>
  /\ outcomes = <<>>
  /\ lookups = 0
  /\ analysed = None
  /\ startText = ""
  /\ raised = NoException
  /\ genRaised = {}
  /\ got = NoGet
  /\ lastPut = NoPut
  /\ fetches = <<>>
  /\ social_cache = {}
  /\ client = [k \in GETTERS \cup PUTTERS |-> IdleClient]
  /\ db = EmptyDb
  /\ runner = [r \in RUNNERS |-> [pc |-> "idle", sub |-> NewSubmission]]
  /\ broker = [sent |-> FALSE, queue |-> 0]

\* the state after construction of the processes specified further below
InitProc ==
  /\ script = NoScript
  /\ path = [r \in RUNNERS |-> IdlePath]
  /\ twitter = IdleTwitter
  /\ social = IdleSocial
  /\ bingo = NewCard

\* no function has been applied yet
NoResults ==
  /\ out = {}
  /\ verdict = {}

Init == InitCore /\ InitProc /\ arg = <<>> /\ NoResults

runLocals == <<submission, extraction, result, idx, critique_data, calls, outcomes,
               lookups, analysed, startText, raised, genRaised>>

(* ------------------------------------------------------------------ *)
(* Submitting (views.py, forms.py)                                     *)
(* ------------------------------------------------------------------ *)
\* ArticleURLSubmitForm.save followed by submission.save() in the view
submit_article_url ==
  /\ UNCHANGED callerVars
  /\ row.id = 0
  /\ \E url \in URLS :
       row' = [NewSubmission EXCEPT !.id = 1, !.original_url = url,
                                    !.publication = detect_publication(url)]
  /\ UNCHANGED <<critique, responses, cache, now, pc, ret, runs, runLocals>>

\* ArticleTextSubmitForm.save followed by submission.save() in the view
submit_article_text ==
  /\ UNCHANGED callerVars
  /\ row.id = 0
  /\ \E url \in {"", UrlFT, UrlBBC}, publication \in {"other", "ft"} :
       row' = [NewSubmission EXCEPT !.id = 1, !.original_url = url,
                                    !.title = "user title", !.author = "user author",
                                    !.publication = publication,
                                    !.extracted_text = PASTED,
                                    !.extraction_method = "manual"]
  /\ UNCHANGED <<critique, responses, cache, now, pc, ret, runs, runLocals>>

\* the clock advances (between runs: a run takes far less than an hour)
Tick ==
  /\ UNCHANGED callerVars
  /\ pc = "none"
  /\ now + TickHours <= MaxNow
  /\ now' = now + TickHours
  /\ UNCHANGED <<row, critique, responses, cache, pc, ret, runs, runLocals>>

(* ------------------------------------------------------------------ *)
(* Strategy fetchers (extractors.py): the results a fetcher can return *)
(* for the pages, statuses and transport failures the network can      *)
(* produce.  `raised` marks an exception that escapes the fetcher.     *)
(* ------------------------------------------------------------------ *)
FetchSuccess(t, m, a) ==
  [raised |-> FALSE, success |-> TRUE, text |-> t, metadata |-> m,
   archive_url |-> a, is_paywalled |-> FALSE, error |-> None]

FetchFailure(e, t, a, pw) ==
  [raised |-> FALSE, success |-> FALSE, text |-> t, metadata |-> EmptyMetadata,
   archive_url |-> a, is_paywalled |-> pw, error |-> e]

FetchRaise(e) ==
  [raised |-> TRUE, success |-> FALSE, text |-> "", metadata |-> EmptyMetadata,
   archive_url |-> "", is_paywalled |-> FALSE, error |-> e]

\* the mirror URL a fetcher reports for a method
ArchiveUrlOf(method) ==
  CASE method = "archive_ph" -> "https://archive.ph/abc"
    [] method = "removepaywall" -> "https://www.removepaywall.com/u"
    [] method = "wayback" -> "https://web.archive.org/web/u"
    [] method = "12ft" -> "https://12ft.io/u"
    [] OTHER -> ""

\* fetch_direct has no archive_url key; the cascade reads it with default ''
fetch_direct(url) ==
       {FetchSuccess(p.text, p.metadata, "") : p \in PAGES}
  \cup {FetchFailure(None, "text1", "", TRUE)}
  \cup {FetchFailure("Could not extract article content", "", "", is_likely_paywalled(url))}
  \cup {FetchFailure(FETCH_ERROR, "", "", FALSE)}
  \cup {FetchRaise(FETCH_ERROR)}

\* the failure a mirror returns: archive.ph answers with its search page when
\* it holds no copy of the URL, the other mirrors time out
MirrorError(method) ==
  IF method = "archive_ph" THEN "No archive found" ELSE FETCH_ERROR

\* the mirror and proxy fetchers share one shape of results
MirrorResults(method) ==
       {FetchSuccess(p.text, p.metadata, ArchiveUrlOf(method)) : p \in PAGES}
  \cup {FetchFailure(MirrorError(method), "", "", FALSE)}
  \cup {FetchRaise(FETCH_ERROR)}

fetch_via_archive_ph(url) == MirrorResults("archive_ph")
fetch_via_removepaywall(url) == MirrorResults("removepaywall")
fetch_via_wayback(url) == MirrorResults("wayback")
fetch_via_12ft(url) == MirrorResults("12ft")

\* method_func(url, timeout=timeout) for the function paired with method_name
Invoke(method_name, url) ==
  CASE method_name = "direct" -> fetch_direct(url)
    [] method_name = "archive_ph" -> fetch_via_archive_ph(url)
    [] method_name = "removepaywall" -> fetch_via_removepaywall(url)
    [] method_name = "wayback" -> fetch_via_wayback(url)
    [] method_name = "12ft" -> fetch_via_12ft(url)

(* ------------------------------------------------------------------ *)
(* Cascade orchestrator (extract_article_with_cascade)                 *)
(* ------------------------------------------------------------------ *)
extraction_methods(url) ==
  IF is_likely_paywalled(url)
  THEN <<"archive_ph", "direct", "removepaywall", "wayback", "12ft">>
  ELSE <<"direct", "archive_ph", "removepaywall", "wayback", "12ft">>

\* variant: an exception of a strategy is swallowed without a log entry
CascadeStep_DropsRaised(res, method_name, method_result) ==
  IF method_result.raised
  THEN res
  ELSE IF method_result.success
  THEN [res EXCEPT !.success = TRUE,
                   !.text = method_result.text,
                   !.metadata = method_result.metadata,
                   !.extraction_method = method_name,
                   !.archive_url = method_result.archive_url,
                   !.is_paywalled = method_result.is_paywalled]
  ELSE [res EXCEPT !.errors = Append(@, [method |-> method_name, error |-> method_result.error]),
                   !.is_paywalled = IF method_name = "direct" /\ method_result.is_paywalled
                                    THEN TRUE ELSE @]

\* one iteration of the loop over extraction_methods
CascadeStep(res, method_name, method_result) ==
  IF method_result.raised
  THEN [res EXCEPT !.errors = Append(@, [method |-> method_name, error |-> method_result.error])]
  ELSE IF method_result.success
  THEN [res EXCEPT !.success = TRUE,
                   !.text = method_result.text,
                   !.metadata = method_result.metadata,
                   !.extraction_method = method_name,
                   !.archive_url = method_result.archive_url,
                   !.is_paywalled = method_result.is_paywalled]
  ELSE [res EXCEPT !.errors = Append(@, [method |-> method_name, error |-> method_result.error]),
                   !.is_paywalled = IF method_name = "direct" /\ method_result.is_paywalled
                                    THEN TRUE ELSE @]

\* variant: the loop goes on after a success
CascadeLeaves_NoEarlyReturn(res, i, url) == i = Len(extraction_methods(url))

\* variant: the loop is left after the first strategy, whatever it reported
CascadeLeaves_StopsAtFailure(res, i, url) == TRUE

\* whether the loop is left after this iteration (return on success, or list exhausted)
CascadeLeaves(res, i, url) == res.success \/ i = Len(extraction_methods(url))

(* ------------------------------------------------------------------ *)
(* Content cache (get_cached_content, cache_content)                   *)
(* ------------------------------------------------------------------ *)
CacheRows(tbl, url) == {e \in tbl : e.url_hash = get_url_hash(url)}

\* variant: an entry counts as expired from its expires_at on
is_expired_AtExpiry(e) == now >= e.expires_at

is_expired(e) == now > e.expires_at

\* rows get_cached_content returns their content of (none: it returns None)
CacheHits(tbl, url) == {e \in CacheRows(tbl, url) : ~is_expired(e)}

\* the table after get_cached_content: an expired row is deleted
CacheAfterGet(tbl, url) == tbl \ {e \in CacheRows(tbl, url) : is_expired(e)}

\* whether JSONField (default encoder) can store the content: json.dumps raises
\* TypeError on a datetime
JsonSerializable(content) == content.metadata.publication_date = None

JsonTypeError == <<"Object of type datetime is not JSON serializable">>

\* variant: an update replaces the content and keeps the old expiry
cache_content_KeepsExpiry(tbl, url, content, cache_hours) ==
  LET old == CacheRows(tbl, url)
      new == IF old = {}
             THEN {[url_hash |-> get_url_hash(url), url |-> url, content |-> content,
                    fetched_at |-> now, expires_at |-> now + cache_hours]}
             ELSE {[e EXCEPT !.url = url, !.content = content] : e \in old}
  IN  (tbl \ old) \cup new

\* update_or_create on url_hash of a content the field can store: fetched_at is
\* set on creation only
cache_content(tbl, url, content, cache_hours) ==
  LET old == CacheRows(tbl, url)
      new == IF old = {}
             THEN {[url_hash |-> get_url_hash(url), url |-> url, content |-> content,
                    fetched_at |-> now, expires_at |-> now + cache_hours]}
             ELSE {[e EXCEPT !.url = url, !.content = content,
                             !.expires_at = now + cache_hours] : e \in old}
  IN  (tbl \ old) \cup new

DefaultCacheHours == 24

(* ------------------------------------------------------------------ *)
(* Analysis collaborator (generate_article_critique)                   *)
(* ------------------------------------------------------------------ *)
\* what the API call and the JSON parsing inside the collaborator can do
API_OUTCOMES == {[kind |-> "ok", error |-> None], [kind |-> "bad_json", error |-> None]}
                \cup {[kind |-> "error", error |-> API_ERROR]}

Returned(v) == [raised |-> FALSE, value |-> v, message |-> <<>>]
Raised(m) == [raised |-> TRUE, value |-> NoCritiqueData, message |-> m]

generate_article_critique(article_text, o) ==
  CASE o.kind = "ok" -> Returned([summary |-> "summary"])
    [] o.kind = "bad_json" -> Returned([summary |-> "Error parsing AI response"])
    [] OTHER -> Raised(<<"Error generating critique: ", o.error>>)

\* ArticleCritique.objects.create: article is a OneToOneField
IntegrityError == <<"UNIQUE constraint failed: article_critiques.article_id">>

(* ------------------------------------------------------------------ *)
(* Submission pipeline (process_article_submission)                    *)
(* ------------------------------------------------------------------ *)
RunError(m) == [status |-> "error", message |-> m]
RunSuccess == [status |-> "success", message |-> <<>>]

\* '; '.join([f"{e['method']}: {e['error']}" for e in errors])
RECURSIVE JoinErrors(_)
JoinErrors(errors) ==
  IF errors = <<>> THEN <<>>
  ELSE LET piece == <<Head(errors).method, ": ", Str(Head(errors).error)>>
       IN  IF Len(errors) = 1 THEN piece
           ELSE piece \o <<"; ">> \o JoinErrors(Tail(errors))

\* variant: the message names no attempt
ExtractionFailedMessage_OmitsLog(errors) == <<"Content extraction failed: ">>

\* the message of the extraction-failed branch
ExtractionFailedMessage(errors) == <<"Content extraction failed: ">> \o JoinErrors(errors)

\* the first status the run writes
FirstStatus(sub) == "extracting"

\* variant: the handler also resets what step 1 extracted
HandlerFields_ClearsExtraction(sub, message) ==
  [sub EXCEPT !.status = "failed", !.error_message = message,
              !.extracted_text = "", !.extraction_method = "direct",
              !.archive_url = "", !.is_paywalled = FALSE]

\* variant: the handler records a fixed text instead of the exception's
HandlerFields_FixedMessage(sub, message) ==
  [sub EXCEPT !.status = "failed", !.error_message = <<"Processing failed">>]

\* variant: the handler records the message and leaves the status
HandlerFields_KeepsStatus(sub, message) == [sub EXCEPT !.error_message = message]

\* the except-handler at the end of the function
HandlerFields(sub, message) ==
  [sub EXCEPT !.status = "failed", !.error_message = message]

\* the success branch of step 1: fields taken from the extraction (the
\* truncation of title and author to the column widths leaves the modelled
\* values unchanged)
WithExtraction(sub, ext) ==
  [sub EXCEPT !.extracted_text = ext.text,
              !.extraction_method = ext.extraction_method,
              !.archive_url = ext.archive_url,
              !.is_paywalled = ext.is_paywalled,
              !.title = IF @ = "" /\ ext.metadata.title # "" THEN ext.metadata.title ELSE @,
              !.author = IF @ = "" /\ ext.metadata.author # "" THEN ext.metadata.author ELSE @,
              !.publication = IF @ = "other" THEN detect_publication(sub.original_url) ELSE @]

\* the failure branch of step 1
WithExtractionFailure(sub, ext) ==
  [sub EXCEPT !.status = "failed",
              !.error_message = ExtractionFailedMessage(ext.errors),
              !.is_paywalled = ext.is_paywalled]

\* variant: step 1 extracts whenever there is a URL
NeedsExtraction_IgnoresText(sub) == sub.original_url # ""

\* whether step 1 extracts
NeedsExtraction(sub) == sub.original_url # "" /\ sub.extracted_text = ""

\* ArticleSubmission.objects.get fails
process_not_found ==
  /\ UNCHANGED callerVars
  /\ pc = "none"
  /\ row.id = 0
  /\ ret' = RunError(<<"Submission not found">>)
  /\ UNCHANGED <<row, critique, responses, cache, now, pc, runs, runLocals>>

\* load the submission, set the first status, save
process_begin ==
  /\ UNCHANGED callerVars
  /\ pc = "none"
  /\ row.id = 1
  /\ runs < MaxRuns
  /\ runs' = runs + 1
  /\ submission' = [row EXCEPT !.status = FirstStatus(row)]
  /\ row' = submission'
  /\ pc' = "step1"
  /\ extraction' = InitResult
  /\ result' = InitResult
  /\ idx' = 0
  /\ critique_data' = NoCritiqueData
  /\ ret' = NoReturn
  /\ calls' = <<>>
  /\ outcomes' = <<>>
  /\ lookups' = 0
  /\ analysed' = None
  /\ startText' = row.extracted_text
  /\ raised' = NoException
  /\ genRaised' = {}
  /\ UNCHANGED <<critique, responses, cache, now>>

\* the content check and the move to analyzing that follow step 1
ContentCheck(sub) ==
  IF sub.extracted_text = ""
  THEN /\ row' = [sub EXCEPT !.status = "failed",
                             !.error_message = <<"No article content available for analysis">>]
       /\ submission' = row'
       /\ ret' = RunError(row'.error_message)
       /\ pc' = "none"
  ELSE /\ row' = [sub EXCEPT !.status = "analyzing"]
       /\ submission' = row'
       /\ ret' = ret
       /\ pc' = "analyze"

\* step 1 when nothing is to be extracted
process_skip_extraction ==
  /\ UNCHANGED callerVars
  /\ pc = "step1"
  /\ ~NeedsExtraction(submission)
  /\ ContentCheck(submission)
  /\ UNCHANGED <<critique, responses, cache, now, runs, extraction, result, idx,
                 critique_data, calls, outcomes, lookups, analysed, startText, raised,
                 genRaised>>

\* variant: no content is stored or accepted from the cache
Cacheable_Never(content) == FALSE

\* whether extract_article_with_cache returns a cached content, or stores a fresh one
Cacheable(content) == content.success /\ content.text # ""

\* step 1 calls extract_article_with_cache, which looks the URL up in the cache
process_call_extract ==
  /\ UNCHANGED callerVars
  /\ pc = "step1"
  /\ NeedsExtraction(submission)
  /\ lookups' = lookups + 1
  /\ cache' = CacheAfterGet(cache, submission.original_url)
  /\ LET hits == {e \in CacheHits(cache, submission.original_url) : Cacheable(e.content)}
     IN  IF hits # {}
         THEN /\ \E e \in hits : extraction' = e.content
              /\ pc' = "apply"
              /\ UNCHANGED <<result, idx>>
         ELSE /\ result' = InitResult
              /\ idx' = 1
              /\ pc' = "cascade"
              /\ UNCHANGED extraction
  /\ UNCHANGED <<row, critique, responses, now, submission, critique_data, ret,
                 runs, calls, outcomes, analysed, startText, raised, genRaised>>

\* one strategy of the cascade is invoked
cascade_try ==
  /\ UNCHANGED callerVars
  /\ pc = "cascade"
  /\ LET url == submission.original_url
         method_name == extraction_methods(url)[idx]
     IN  \E method_result \in Invoke(method_name, url) :
           /\ calls' = Append(calls, method_name)
           /\ outcomes' = Append(outcomes, method_result)
           /\ result' = CascadeStep(result, method_name, method_result)
           /\ IF CascadeLeaves(result', idx, url)
              THEN pc' = "write" /\ idx' = idx
              ELSE pc' = "cascade" /\ idx' = idx + 1
  /\ UNCHANGED <<row, critique, responses, cache, now, submission, extraction,
                 critique_data, ret, runs, lookups, analysed, startText, raised, genRaised>>

\* the except-handler: status failed, message recorded, saved
Handle(message) ==
  /\ raised' = message
  /\ row' = HandlerFields(submission, message)
  /\ submission' = row'
  /\ ret' = RunError(message)
  /\ pc' = "none"

\* extract_article_with_cache after the cascade returned: the write-through, whose
\* TypeError leaves extract_article_with_cache and reaches the run's handler
cache_write_through ==
  /\ UNCHANGED callerVars
  /\ pc = "write"
  /\ IF Cacheable(result) /\ ~JsonSerializable(result)
     THEN /\ Handle(JsonTypeError)
          /\ UNCHANGED <<cache, extraction>>
     ELSE /\ cache' = IF Cacheable(result)
                      THEN cache_content(cache, submission.original_url, result,
                                         DefaultCacheHours)
                      ELSE cache
          /\ extraction' = result
          /\ pc' = "apply"
          /\ UNCHANGED <<row, submission, ret, raised>>
  /\ UNCHANGED <<critique, responses, now, result, idx, critique_data, runs, calls,
                 outcomes, lookups, analysed, startText, genRaised>>

\* extract_article_with_cache called for another submission of the same URL
\* while no run is active: a cache miss, then a cascade whose first strategy
\* succeeds, then a write-through that stores the content
other_submission_extracts ==
  /\ UNCHANGED callerVars
  /\ pc = "none"
  /\ row.id = 1
  /\ row.original_url # ""
  /\ LET url == row.original_url
         method_name == extraction_methods(url)[1]
     IN  /\ {e \in CacheHits(cache, url) : Cacheable(e.content)} = {}
         /\ \E method_result \in Invoke(method_name, url) :
              LET content == CascadeStep(InitResult, method_name, method_result)
              IN  /\ Cacheable(content)
                  /\ JsonSerializable(content)
                  /\ cache' = cache_content(CacheAfterGet(cache, url), url, content,
                                            DefaultCacheHours)
  /\ UNCHANGED <<row, critique, responses, now, pc, ret, runs, runLocals>>

\* step 1 after extract_article_with_cache returned
process_apply_extraction ==
  /\ UNCHANGED callerVars
  /\ pc = "apply"
  /\ IF extraction.success
     THEN ContentCheck(WithExtraction(submission, extraction))
     ELSE /\ row' = WithExtractionFailure(submission, extraction)
          /\ submission' = row'
          /\ ret' = RunError(row'.error_message)
          /\ pc' = "none"
  /\ UNCHANGED <<critique, responses, cache, now, runs, extraction, result, idx,
                 critique_data, calls, outcomes, lookups, analysed, startText, raised,
                 genRaised>>

\* step 2: the critique is generated and stored, then status generating
process_analyze ==
  /\ UNCHANGED callerVars
  /\ pc = "analyze"
  /\ \E api_key \in BOOLEAN :
     IF ~api_key
     THEN /\ Handle(<<"ANTHROPIC_API_KEY not configured">>)
          /\ UNCHANGED <<critique, critique_data, analysed>>
     ELSE \E o \in API_OUTCOMES :
            LET r == generate_article_critique(submission.extracted_text, o)
            IN  /\ analysed' = submission.extracted_text
                /\ IF r.raised
                   THEN Handle(r.message) /\ UNCHANGED <<critique, critique_data>>
                   ELSE IF critique
                   THEN Handle(IntegrityError) /\ critique_data' = r.value
                        /\ UNCHANGED critique
                   ELSE /\ critique_data' = r.value
                        /\ critique' = TRUE
                        /\ row' = [submission EXCEPT !.status = "generating"]
                        /\ submission' = row'
                        /\ pc' = "tweet"
                        /\ UNCHANGED <<raised, ret>>
  /\ UNCHANGED <<responses, cache, now, runs, extraction, result, idx, calls,
                 outcomes, lookups, startText, genRaised>>

\* one of the three guarded generator blocks of step 3
Generate(response_type, next) ==
  /\ UNCHANGED callerVars
  /\ pc = response_type
  /\ \E ok \in BOOLEAN :
       IF ok
       THEN responses' = responses \cup {response_type} /\ UNCHANGED genRaised
       ELSE genRaised' = genRaised \cup {response_type} /\ UNCHANGED responses
  /\ pc' = next
  /\ UNCHANGED <<row, critique, cache, now, submission, extraction, result, idx,
                 critique_data, ret, runs, calls, outcomes, lookups, analysed, startText,
                 raised>>

generate_tweet == Generate("tweet", "thread")
generate_thread == Generate("thread", "letter")
generate_letter == Generate("letter", "complete")

\* status completed, saved, success returned
process_complete ==
  /\ UNCHANGED callerVars
  /\ pc = "complete"
  /\ row' = [submission EXCEPT !.status = "completed"]
  /\ submission' = row'
  /\ ret' = RunSuccess
  /\ pc' = "none"
  /\ UNCHANGED <<critique, responses, cache, now, runs, extraction, result, idx,
                 critique_data, calls, outcomes, lookups, analysed, startText, raised,
                 genRaised>>

Next ==
  \/ submit_article_url
  \/ submit_article_text
  \/ Tick
  \/ process_not_found
  \/ process_begin
  \/ process_skip_extraction
  \/ process_call_extract
  \/ cascade_try
  \/ cache_write_through
  \/ other_submission_extracts
  \/ process_apply_extraction
  \/ process_analyze
  \/ generate_tweet
  \/ generate_thread
  \/ generate_letter
  \/ process_complete

Spec == Init /\ [][Next]_vars

TypeOK ==
  /\ row.status \in STATUS_CHOICES
  /\ pc \in {"none", "step1", "cascade", "write", "apply", "analyze", "tweet", "thread",
             "letter", "complete"}
  /\ now \in 0..(MaxNow + TickHours)

(* ================================================================== *)
(* Properties                                                          *)
(* ================================================================== *)
\* the run that last started has finished
RunFinished == runs > 0 /\ pc = "none"

\* the last run called extract_article_with_cache and it reported failure
ExtractionFailed == RunFinished /\ lookups > 0 /\ ~extraction.success /\ raised = NoException

\* the status changes C1 lists
C1_Allowed ==
  {<<"submitted", "extracting">>, <<"submitted", "analyzing">>,
   <<"extracting", "analyzing">>, <<"analyzing", "generating">>,
   <<"generating", "completed">>, <<"extracting", "failed">>,
   <<"analyzing", "failed">>}

(* C1: in any run every change of the persisted status is one of
   submitted->extracting, submitted->analyzing, extracting->analyzing,
   analyzing->generating, generating->completed, extracting->failed,
   analyzing->failed; failed is never entered from generating or completed. *)
C1_StatusTransitions ==
  [][row'.status # row.status => <<row.status, row'.status>> \in C1_Allowed]_vars

\* the order of the statuses, failed being terminal
Rank(status) ==
  CASE status = "submitted" -> 0
    [] status = "extracting" -> 1
    [] status = "analyzing" -> 2
    [] status = "generating" -> 3
    [] status = "completed" -> 4
    [] status = "failed" -> 5

(* C2: over any sequence of runs on one submission the persisted status never
   moves backward in submitted < extracting < analyzing < generating <
   completed, except for a re-entry at analyzing; a completed or failed
   submission is never set back to extracting. *)
C2_StatusMonotonic ==
  [][Rank(row'.status) >= Rank(row.status) \/ row'.status = "analyzing"]_vars

\* the fields of a submission other than status and error_message
C3_OtherFields ==
  {"id", "original_url", "archive_url", "extraction_method", "title", "author",
   "publication", "extracted_text", "is_paywalled"}

(* C3: when the analysis step raises after a successful extraction in the same
   run, the persisted submission is failed and still carries the extraction's
   extracted_text, extraction_method, archive_url and is_paywalled; the failure
   changes only status and error_message. *)
C3_ExtractionPreserved ==
  /\ [](RunFinished /\ raised # NoException /\ lookups > 0 /\ extraction.success
          => /\ row.status = "failed"
             /\ row.extracted_text = extraction.text
             /\ row.extraction_method = extraction.extraction_method
             /\ row.archive_url = extraction.archive_url
             /\ row.is_paywalled = extraction.is_paywalled)
  /\ [][raised = NoException /\ raised' # NoException
          => \A f \in C3_OtherFields : row'[f] = row[f]]_vars

C3_Witness ==
  /\ RunFinished /\ raised # NoException /\ lookups = 1 /\ extraction.success
  /\ row.status = "failed" /\ row.extracted_text = "text2"
  /\ row.extraction_method = "wayback"

(* C4 as stated: an exception of the analysis collaborator or of a generator
   (tweet, thread, letter) leaves the submission failed with the exception's
   message as error_message. *)
C4_AnyExceptionFails ==
  RunFinished =>
    /\ raised # NoException => row.status = "failed" /\ row.error_message = raised
    /\ genRaised # {} => row.status = "failed" /\ row.error_message = <<GENERATOR_ERROR>>

(* C4 amended: an exception of the analysis step leaves the submission failed
   with the exception's message as error_message; an exception inside a
   generator block is swallowed and the run ends completed. *)
C4_AnalysisExceptionFails ==
  RunFinished =>
    /\ raised # NoException => row.status = "failed" /\ row.error_message = raised
    /\ genRaised # {} => row.status = "completed" /\ raised = NoException

C4_Witness ==
  /\ RunFinished /\ runs = 2
  /\ genRaised = {"tweet", "letter"} /\ row.status = "completed"
  /\ row.error_message = <<"Error generating critique: ", API_ERROR>>

\* the attempt log as 'method: error' pieces joined by '; ', from the invocations
RECURSIVE C5_Joined(_)
C5_Joined(i) ==
  IF i > Len(calls) THEN <<>>
  ELSE <<calls[i], ": ", Str(outcomes[i].error)>>
       \o (IF i < Len(calls) THEN <<"; ">> ELSE <<>>) \o C5_Joined(i + 1)

(* C5 as stated: status becomes analyzing only if the extraction succeeded; on
   exhaustion status is failed, error_message is the joined attempt log, and
   the analysis collaborator is not called. *)
C5_FailedMessageIsLog ==
  /\ [](ExtractionFailed
          => /\ row.status = "failed"
             /\ row.error_message = C5_Joined(1)
             /\ analysed = None)
  /\ [][pc = "apply" /\ row'.status = "analyzing" => extraction.success]_vars

(* C5 amended: as C5, with error_message being 'Content extraction failed: '
   followed by the joined attempt log. *)
C5_FailedMessageIsPrefixedLog ==
  /\ [](ExtractionFailed
          => /\ row.status = "failed"
             /\ row.error_message = <<"Content extraction failed: ">> \o C5_Joined(1)
             /\ analysed = None)
  /\ [][pc = "apply" /\ row'.status = "analyzing" => extraction.success]_vars

C5_Witness ==
  /\ ExtractionFailed /\ Len(calls) = 5 /\ row.status = "failed"
  /\ outcomes[1].error = None /\ outcomes[2].raised /\ ~outcomes[3].raised

(* C6: the status extracting is persisted only for a submission without
   pre-supplied extracted_text; a manual-paste submission is never persisted
   with status extracting. *)
C6_ExtractingOnlyWithoutText ==
  row.status = "extracting" => row.extracted_text = "" /\ row.extraction_method # "manual"

(* C7: a run that starts on a submission with non-empty extracted_text never
   calls extract_article_with_cache or a strategy fetcher, keeps the stored
   text and hands it to the analysis. *)
C7_StoredTextReused ==
  runs > 0 /\ startText # ""
    => /\ lookups = 0
       /\ calls = <<>>
       /\ row.extracted_text = startText
       /\ analysed \in {None, startText}
       /\ pc \in {"tweet", "thread", "letter", "complete"} => analysed = startText

C7_Witness ==
  /\ runs = 2 /\ startText = "text1" /\ pc = "tweet" /\ analysed = "text1"
  /\ row.original_url = UrlBBC /\ lookups = 0

(* C8: the cascade invokes the strategies one after another in list order and
   stops at the first success: nothing is invoked after it, and the returned
   extraction_method, text and archive_url are those of that strategy. *)
C8_FirstSuccessWins ==
  pc \in {"cascade", "write"} =>
    LET n == Len(calls)
        methods == extraction_methods(submission.original_url)
    IN  /\ n <= Len(methods)
        /\ calls = SubSeq(methods, 1, n)
        /\ \A i \in 1..(n - 1) : ~outcomes[i].success
        /\ pc = "cascade" => n = idx - 1 /\ ~result.success
                             /\ \A i \in 1..n : ~outcomes[i].success
        /\ pc = "write" => /\ n >= 1
                           /\ result.success = outcomes[n].success
                           /\ ~result.success => n = Len(methods)
                           /\ result.success =>
                                /\ result.extraction_method = calls[n]
                                /\ result.text = outcomes[n].text
                                /\ result.archive_url = outcomes[n].archive_url

C8_Witness ==
  /\ pc = "write" /\ result.success /\ Len(calls) = 3
  /\ result.extraction_method = "removepaywall" /\ result.text = "text2"
  /\ outcomes[2].raised

\* the host of the URL, lower-cased and without a leading 'www.'
C9_Domain(url) ==
  LET h == Lower(Netloc(url))
  IN  IF Len(h) >= 4 /\ SubSeq(h, 1, 4) = WwwDot THEN SubSeq(h, 5, Len(h)) ELSE h

\* d is the domain or a parent domain of it
C9_DomainMatches(domain, d) ==
  \/ domain = d
  \/ /\ Len(domain) > Len(d)
     /\ SubSeq(domain, Len(domain) - Len(d), Len(domain)) = <<".">> \o d

C9_InPaywalledTable(url) ==
  \E i \in 1..Len(PAYWALLED_SITES) : C9_DomainMatches(C9_Domain(url), PAYWALLED_SITES[i])

\* the order C9 states for a paywalled domain
C9_PaywalledOrder == <<"archive_ph", "direct", "removepaywall", "wayback", "12ft">>

(* C9: for a URL whose domain is in the paywalled-domain table the strategies
   are attempted in the order archive_ph, direct, removepaywall, wayback, 12ft;
   for every other URL direct is attempted first; when all fail, the attempt
   log shows that order. *)
C9_CascadeOrder ==
  pc \in {"cascade", "write"} /\ calls # <<>> =>
    LET url == submission.original_url
    IN  /\ C9_InPaywalledTable(url) => calls = SubSeq(C9_PaywalledOrder, 1, Len(calls))
        /\ ~C9_InPaywalledTable(url) => calls[1] = "direct"
        /\ pc = "write" /\ ~result.success =>
             /\ Len(result.errors) = Len(calls)
             /\ \A i \in 1..Len(calls) : result.errors[i].method = calls[i]

(* C10: when every strategy fails, by returning a failure or by raising, the
   errors list has exactly one {method, error} entry per attempted strategy,
   in the order attempted, and no method twice. *)
C10_OneEntryPerAttempt ==
  pc \in {"cascade", "write"} /\ ~result.success =>
    /\ Len(result.errors) = Len(calls)
    /\ \A i \in 1..Len(calls) :
         result.errors[i] = [method |-> calls[i], error |-> outcomes[i].error]
    /\ \A i, j \in 1..Len(result.errors) :
         result.errors[i].method = result.errors[j].method => i = j
    /\ pc = "write" => Len(result.errors) = Len(extraction_methods(submission.original_url))

C10_Witness ==
  /\ pc = "write" /\ ~result.success /\ Len(result.errors) = 5
  /\ outcomes[1].raised /\ ~outcomes[2].raised /\ outcomes[5].raised

\* the direct fetch of the current cascade reported a paywall
C11_DirectFlagged ==
  \E i \in 1..Len(calls) : calls[i] = "direct" /\ outcomes[i].is_paywalled

(* C11: when the direct fetch reported is_paywalled and a later strategy
   succeeded, the result returned by the cascade has is_paywalled true, and so
   has the submission once step 1 has stored the extraction. *)
C11_PaywallFlagSurfaces ==
  (C11_DirectFlagged /\ result.success)
    => /\ result.is_paywalled
       /\ (pc \notin {"cascade", "write", "apply"} => row.is_paywalled)

\* the current cascade went through the whole list without a success
C12_Exhausted ==
  /\ pc # "cascade"
  /\ Len(calls) = Len(extraction_methods(submission.original_url))
  /\ ~result.success

(* C12: when every strategy failed the cascade returns success false with one
   log entry per strategy and, for a URL is_likely_paywalled accepts, with
   is_paywalled true; the failed submission stores that flag. *)
C12_ExhaustedDefaultsToDomain ==
  C12_Exhausted
    => /\ Len(result.errors) = Len(calls)
       /\ (is_likely_paywalled(submission.original_url)
             => /\ result.is_paywalled
                /\ (pc = "none" => row.is_paywalled))

(* C13: a strategy that fails, by a timeout or network error, by raising, or by
   a 'no results' / 'no snapshot' answer, becomes the attempt-log entry at its
   position, the next strategy in the list is then invoked, and the cascade
   hands a result to its caller whose success is that of the last strategy
   invoked, no exception reaching the run's handler. *)
C13_FailureRecovered ==
  LET methods == extraction_methods(submission.original_url)
  IN  /\ \A i \in 1..Len(calls) :
           ~outcomes[i].success
             => /\ Len(result.errors) >= i
                /\ result.errors[i] = [method |-> calls[i], error |-> outcomes[i].error]
                /\ i < Len(methods)
                     => \/ Len(calls) > i /\ calls[i + 1] = methods[i + 1]
                        \/ Len(calls) = i /\ pc = "cascade" /\ idx = i + 1
      /\ (calls # <<>> /\ pc \in {"write", "apply"})
           => /\ result.success = outcomes[Len(calls)].success
              /\ raised = NoException

\* a cascade returned after a raise, a timeout and a 'no results' answer
C13_Witness ==
  /\ pc = "write"
  /\ result.success
  /\ \E i, j, k \in 1..Len(calls) :
       /\ outcomes[i].raised
       /\ ~outcomes[j].raised /\ outcomes[j].error = FETCH_ERROR
       /\ ~outcomes[k].raised
       /\ outcomes[k].error = "No archive found"

(* ================================================================== *)
(* The cache functions called directly (get_cached_content,            *)
(* cache_content), with a clock of one-hour steps                      *)
(* ================================================================== *)
\* hours the clock of SpecCache runs
MaxClock == 2
\* calls of cache_content
MaxPuts == 2

\* contents a caller stores: what the cascade returns for each page
CACHE_CONTENTS ==
  {CascadeStep(InitResult, "direct", FetchSuccess(p.text, p.metadata, "")) : p \in PAGES}

\* cache_hours a caller passes: an int, the code does not restrict it
CACHE_HOURS == {0, 1, 2}

\* cache_content(url, content, cache_hours); a content the JSONField cannot
\* store makes update_or_create raise TypeError and the table stays as it is
call_cache_content ==
  /\ \E url \in CACHE_URLS, content \in CACHE_CONTENTS, cache_hours \in CACHE_HOURS :
       /\ lastPut.n < MaxPuts
       /\ cache' = IF JsonSerializable(content)
                   THEN cache_content(cache, url, content, cache_hours)
                   ELSE cache
       /\ lastPut' = [n |-> lastPut.n + 1, url |-> url, content |-> {content},
                      expires_at |-> now + cache_hours,
                      raised |-> ~JsonSerializable(content)]
  /\ UNCHANGED <<got, now, runVars, entryVars, raceVars, dispatchVars, auxVars>>

\* get_cached_content(url)
call_get_cached_content ==
  /\ \E url \in CACHE_URLS :
       /\ got' = [url |-> url, rows |-> CacheRows(cache, url),
                  value |-> {e.content : e \in CacheHits(cache, url)},
                  at |-> now, puts |-> lastPut.n]
       /\ cache' = CacheAfterGet(cache, url)
  /\ UNCHANGED <<lastPut, now, runVars, entryVars, raceVars, dispatchVars, auxVars>>

\* timezone.now() moves on by an hour
clock_tick ==
  /\ now < MaxClock
  /\ now' = now + 1
  /\ UNCHANGED <<cache, got, lastPut, runVars, entryVars, raceVars, dispatchVars, auxVars>>

NextCache ==
  \/ call_cache_content
  \/ call_get_cached_content
  \/ clock_tick

SpecCache == Init /\ [][NextCache]_vars

(* C15: a get_cached_content that follows the latest cache_content call, on the
   URL of that call and at a time not later than that call's expires_at,
   returns exactly the content that call was given. *)
C15_GetReturnsLastPut ==
  (lastPut.n > 0 /\ got.url = lastPut.url /\ got.puts = lastPut.n
     /\ got.at <= lastPut.expires_at)
    => got.value = lastPut.content

(* C16: a get_cached_content that finds an entry with now > expires_at returns
   None and, until the next cache_content, no entry exists for the URL hash;
   an entry with now <= expires_at is returned and stays in the table. *)
C16_GetExpires ==
  \A e \in got.rows :
    LET untouched == lastPut.n = got.puts
    IN  IF got.at > e.expires_at
        THEN got.value = {} /\ (untouched => CacheRows(cache, got.url) = {})
        ELSE got.value = {e.content} /\ (untouched => e \in cache)

\* a get found an expired entry, returned None and left no entry
C16_Witness ==
  /\ \E e \in got.rows : got.at > e.expires_at /\ e.expires_at > e.fetched_at
  /\ got.value = {}
  /\ CacheRows(cache, got.url) = {}

(* C18: every cache entry has expires_at > fetched_at, also after an overwrite
   and for any cache_hours a caller passes. *)
C18_ExpiresAfterFetched ==
  \A e \in cache : e.expires_at > e.fetched_at

(* ================================================================== *)
(* The cached entry points called again and again:                     *)
(* extract_article_with_cache by runs on the submission's URL, and     *)
(* fetch_with_cache (social_critique/fetchers.py) on social URLs.  The *)
(* social get_cached_content and cache_content are the article ones    *)
(* on the ContentCache table.                                          *)
(* ================================================================== *)
\* calls of the entry points in one behaviour
MaxCalls == 2

TWITTER_DOMAINS ==
  {<<"t","w","i","t","t","e","r",".","c","o","m">>,
   <<"x",".","c","o","m">>,
   <<"m","o","b","i","l","e",".","t","w","i","t","t","e","r",".","c","o","m">>,
   <<"m","o","b","i","l","e",".","x",".","c","o","m">>,
   <<"t",".","c","o">>}

BLUESKY_DOMAINS ==
  {<<"b","s","k","y",".","a","p","p">>,
   <<"b","s","k","y",".","s","o","c","i","a","l">>}

is_twitter_url(url) == ReplaceWww(Lower(Netloc(url))) \in TWITTER_DOMAINS

is_bluesky_url(url) == ReplaceWww(Lower(Netloc(url))) \in BLUESKY_DOMAINS

\* URLs submitted for a social critique
SOCIAL_URLS == {UrlTweet, UrlBBC}

SocialContent(t, d, e) == [text |-> t, publish_date |-> d, error |-> e]

\* what fetch_url_content can return: an error, no text, a text of 10 and one of
\* 37 characters, and for a page fetched generically a publish_date, which
\* _extract_publish_date returns as a datetime object
fetch_url_content(url) ==
       {SocialContent("", None, "Request timed out. The page took too long to respond."),
        SocialContent("", None, None),
        SocialContent("short post", None, None),
        SocialContent("a post of more than twenty characters", None, None)}
  \cup IF is_twitter_url(url) \/ is_bluesky_url(url) THEN {}
       ELSE {SocialContent("a post of more than twenty characters", PUBLISHED, None)}

\* the test fetch_with_cache applies to a cached and to a fetched content
SocialMeaningful(content) ==
  content.error = None /\ content.text # "" /\ Len(content.text) > 20

\* whether the ContentCache JSONField can store the content
SocialSerializable(content) == content.publish_date = None

\* an entry of the log: the entry point, its URL, the time of the call, whether
\* the cache answered it, what fetch_url_content returned to fetch_with_cache
\* ({} if it was not called), and the content returned to the caller: {} while
\* none is, after an exception, and for a failed extraction
Call(entry, url, hit, fetched, content) ==
  [entry |-> entry, url |-> url, at |-> now, hit |-> hit, fetched |-> fetched,
   content |-> content]

\* fetch_with_cache after fetch_url_content returned: cache_content raises
\* TypeError on a content with a datetime
SocialFetched(url, content, tbl) ==
  IF SocialMeaningful(content) /\ ~SocialSerializable(content)
  THEN /\ social_cache' = tbl
       /\ fetches' = Append(fetches, Call("fetch_with_cache", url, FALSE, {content}, {}))
  ELSE /\ social_cache' = IF SocialMeaningful(content)
                          THEN cache_content(tbl, url, content, DefaultCacheHours)
                          ELSE tbl
       /\ fetches' = Append(fetches, Call("fetch_with_cache", url, FALSE, {content}, {content}))

\* fetch_with_cache(url)
call_fetch_with_cache ==
  /\ pc = "none"
  /\ Len(fetches) < MaxCalls
  /\ \E url \in SOCIAL_URLS :
       IF is_twitter_url(url) \/ is_bluesky_url(url)
       THEN \E content \in fetch_url_content(url) : SocialFetched(url, content, social_cache)
       ELSE LET hits == {e \in CacheHits(social_cache, url) : SocialMeaningful(e.content)}
            IN  IF hits # {}
                THEN \E e \in hits :
                       /\ social_cache' = CacheAfterGet(social_cache, url)
                       /\ fetches' = Append(fetches,
                                            Call("fetch_with_cache", url, TRUE, {}, {e.content}))
                ELSE \E content \in fetch_url_content(url) :
                       SocialFetched(url, content, CacheAfterGet(social_cache, url))
  /\ UNCHANGED <<cache, now, got, lastPut, runVars, raceVars, dispatchVars, auxVars>>

\* a run on the submission calls extract_article_with_cache(original_url)
call_extract_article_with_cache ==
  /\ pc = "none"
  /\ row.id = 1
  /\ Len(fetches) < MaxCalls
  /\ submission' = row
  /\ calls' = <<>>
  /\ outcomes' = <<>>
  /\ raised' = NoException
  /\ ret' = NoReturn
  /\ cache' = CacheAfterGet(cache, row.original_url)
  /\ LET hits == {e \in CacheHits(cache, row.original_url) : Cacheable(e.content)}
     IN  /\ fetches' = Append(fetches, Call("extract_article_with_cache",
                                            row.original_url, hits # {}, {}, {}))
         /\ IF hits # {}
            THEN /\ \E e \in hits : extraction' = e.content
                 /\ result' = InitResult
                 /\ idx' = 0
                 /\ pc' = "apply"
            ELSE /\ extraction' = InitResult
                 /\ result' = InitResult
                 /\ idx' = 1
                 /\ pc' = "cascade"
  /\ UNCHANGED <<row, critique, responses, now, critique_data, runs, lookups, analysed,
                 startText, genRaised, got, lastPut, social_cache, raceVars, dispatchVars, auxVars>>

\* extract_article_with_cache returns to the run; its locals are gone
extract_article_with_cache_returns ==
  /\ pc = "apply"
  /\ pc' = "none"
  /\ fetches' = [fetches EXCEPT ![Len(fetches)].content =
                                  IF extraction.success THEN {extraction} ELSE {}]
  /\ extraction' = InitResult
  /\ result' = InitResult
  /\ idx' = 0
  /\ calls' = <<>>
  /\ outcomes' = <<>>
  /\ UNCHANGED <<row, critique, responses, cache, now, submission, critique_data, ret,
                 runs, lookups, analysed, startText, raised, genRaised, got, lastPut,
                 social_cache, raceVars, dispatchVars, auxVars>>

NextEntry ==
  \/ submit_article_url
  \/ Tick
  \/ call_extract_article_with_cache
  \/ cascade_try
  \/ cache_write_through
  \/ extract_article_with_cache_returns
  \/ call_fetch_with_cache

SpecEntry == Init /\ [][NextEntry]_vars

\* two calls of one entry point on one URL with no time between them
C14_Successive(i) ==
  /\ fetches[i].entry = fetches[i + 1].entry
  /\ fetches[i].url = fetches[i + 1].url
  /\ fetches[i].at = fetches[i + 1].at

(* C14 as stated: of two calls of a cached entry point in immediate succession
   on the same URL the second is answered from the cache, so that the two run
   one fetch. *)
C14_SecondCallHits ==
  \A i \in 1..(Len(fetches) - 1) :
    C14_Successive(i) => /\ ~fetches[i].hit
                         /\ fetches[i + 1].hit

\* the call returned a content the entry point stores
C14_ReturnedStorable(c) ==
  \E v \in c.content :
    IF c.entry = "fetch_with_cache"
    THEN v.error = None /\ Len(v.text) > 20
    ELSE v.success /\ v.text # ""

(* C14 amended: when the first of two calls in immediate succession returned a
   successful content with text (for fetch_with_cache: without error, longer
   than 20 characters, on a URL that is neither Twitter nor Bluesky), the
   second call is answered from the cache with that content and runs no
   fetch. *)
C14_SecondCallHitsAfterSuccess ==
  \A i \in 1..(Len(fetches) - 1) :
    (C14_Successive(i) /\ C14_ReturnedStorable(fetches[i])
       /\ ~(fetches[i].entry = "fetch_with_cache"
            /\ (is_twitter_url(fetches[i].url) \/ is_bluesky_url(fetches[i].url))))
      => /\ fetches[i + 1].hit
         /\ fetches[i + 1].content \in {{}, fetches[i].content}
         /\ (Len(fetches) = i + 1 /\ fetches[i].entry = "extract_article_with_cache")
              => calls = <<>> /\ pc \in {"apply", "none"}

\* a first call ran the cascade and stored its content, a second one right
\* after it returned that content from the cache
C14_Witness ==
  \E i \in 1..(Len(fetches) - 1) :
    /\ C14_Successive(i)
    /\ fetches[i].entry = "extract_article_with_cache"
    /\ ~fetches[i].hit
    /\ C14_ReturnedStorable(fetches[i])
    /\ fetches[i + 1].hit
    /\ fetches[i + 1].content = fetches[i].content

\* the last call logged is a call of extract_article_with_cache that missed the
\* cache and whose write-through step is done
C17_ArticleWritten ==
  /\ fetches # <<>>
  /\ fetches[Len(fetches)].entry = "extract_article_with_cache"
  /\ ~fetches[Len(fetches)].hit
  /\ pc = "apply" \/ (pc = "none" /\ raised = JsonTypeError)

\* the last call logged is a call of fetch_with_cache that fetched
C17_SocialWritten ==
  /\ fetches # <<>>
  /\ fetches[Len(fetches)].entry = "fetch_with_cache"
  /\ fetches[Len(fetches)].fetched # {}

(* C17: after a call of a cached entry point that fetched, the table holds an
   entry with the fetched content for the URL if and only if the fetch was
   successful with non-empty text; a failed fetch leaves no entry for the URL
   and the next call fetches again. *)
C17_CachedIffSuccessful ==
  /\ C17_ArticleWritten
       => LET rows == CacheRows(cache, submission.original_url)
          IN  IF result.success /\ result.text # ""
              THEN \E e \in rows : e.content = result
              ELSE rows = {}
  /\ C17_SocialWritten
       => LET last == fetches[Len(fetches)]
              rows == CacheRows(social_cache, last.url)
          IN  \A c \in last.fetched :
                IF c.error = None /\ c.text # ""
                THEN \E e \in rows : e.content = c
                ELSE \A e \in rows : e.content # c
  /\ \A i \in 1..(Len(fetches) - 1) :
       (fetches[i].entry = fetches[i + 1].entry /\ fetches[i].url = fetches[i + 1].url
          /\ ~fetches[i].hit /\ ~C14_ReturnedStorable(fetches[i]))
         => ~fetches[i + 1].hit

(* ================================================================== *)
(* get_cached_content and cache_content called concurrently on one     *)
(* URL.  A step is one SQL statement: get_cached_content is a SELECT   *)
(* and, for an expired row, a DELETE by primary key; update_or_create  *)
(* is a SELECT FOR UPDATE in a transaction followed by an UPDATE of    *)
(* the locked row or, when there was no row, by an INSERT that falls   *)
(* back to the UPDATE when the row has appeared meanwhile.             *)
(* ================================================================== *)
RaceUrl == UrlBBC

\* contents the concurrent puts store
RACE_CONTENTS == {c \in CACHE_CONTENTS : JsonSerializable(c)}

\* what a put writes
Written(content) == [content |-> content, expires_at |-> now + DefaultCacheHours]

\* ArticleContentCache.objects.get(url_hash=url_hash)
get_select(g) ==
  /\ client[g].pc = "idle"
  /\ client' = [client EXCEPT ![g] = [@ EXCEPT !.pc = "read",
                                               !.seen = CacheRows(cache, RaceUrl),
                                               !.pk = db.pk]]
  /\ UNCHANGED <<cache, db>>

\* the rest of get_cached_content: return the content of a row that is not
\* expired, delete an expired one (the DELETE waits for the row lock)
get_finish(g) ==
  /\ client[g].pc = "read"
  /\ LET fresh == {e \in client[g].seen : ~is_expired(e)}
     IN  IF client[g].seen = {} \/ fresh # {}
         THEN /\ client' = [client EXCEPT ![g] = [@ EXCEPT !.pc = "done",
                                                          !.ret = {e.content : e \in fresh}]]
              /\ UNCHANGED <<cache, db>>
         ELSE /\ db.lock = ""
              /\ client' = [client EXCEPT ![g] = [@ EXCEPT !.pc = "done", !.ret = {}]]
              /\ IF db.pk = client[g].pk
                 THEN /\ cache' = cache \ CacheRows(cache, RaceUrl)
                      /\ db' = [db EXCEPT !.pk = 0]
                 ELSE UNCHANGED <<cache, db>>

\* cache_content up to the SELECT FOR UPDATE of update_or_create, which waits
\* for the row lock and takes it when there is a row
put_select(p) ==
  /\ client[p].pc = "idle"
  /\ db.lock = ""
  /\ \E content \in RACE_CONTENTS :
       client' = [client EXCEPT ![p] = [@ EXCEPT !.pc = IF db.pk = 0 THEN "insert"
                                                                     ELSE "update",
                                                 !.content = {content}]]
  /\ db' = [db EXCEPT !.lock = IF db.pk = 0 THEN "" ELSE p]
  /\ UNCHANGED cache

\* the UPDATE of the locked row and the commit
put_update(p) ==
  /\ client[p].pc = "update"
  /\ \E content \in client[p].content :
       /\ cache' = cache_content(cache, RaceUrl, content, DefaultCacheHours)
       /\ db' = [db EXCEPT !.lock = "", !.written = @ \cup {Written(content)}]
  /\ client' = [client EXCEPT ![p] = [@ EXCEPT !.pc = "done"]]

\* the INSERT; when a row has appeared it fails on the unique url_hash and
\* get_or_create fetches that row, which is then updated
put_insert(p) ==
  /\ client[p].pc = "insert"
  /\ db.lock = ""
  /\ \E content \in client[p].content :
       /\ cache' = cache_content(cache, RaceUrl, content, DefaultCacheHours)
       /\ db' = [db EXCEPT !.pk = IF @ = 0 THEN db.nextpk ELSE @,
                           !.nextpk = IF db.pk = 0 THEN @ + 1 ELSE @,
                           !.written = @ \cup {Written(content)}]
  /\ client' = [client EXCEPT ![p] = [@ EXCEPT !.pc = "done"]]

raceRest == <<now, got, lastPut, runVars, entryVars, dispatchVars, auxVars>>

getter_selects == (\E g \in GETTERS : get_select(g)) /\ UNCHANGED raceRest
getter_finishes == (\E g \in GETTERS : get_finish(g)) /\ UNCHANGED raceRest
putter_selects == (\E p \in PUTTERS : put_select(p)) /\ UNCHANGED raceRest
putter_updates == (\E p \in PUTTERS : put_update(p)) /\ UNCHANGED raceRest
putter_inserts == (\E p \in PUTTERS : put_insert(p)) /\ UNCHANGED raceRest

\* the clock advances while no call is under way (a call takes far less than
\* an hour)
race_tick ==
  /\ \A k \in GETTERS \cup PUTTERS : client[k].pc \in {"idle", "done"}
  /\ now + TickHours <= MaxNow
  /\ now' = now + TickHours
  /\ UNCHANGED <<cache, got, lastPut, runVars, entryVars, raceVars, dispatchVars, auxVars>>

NextRace ==
  \/ getter_selects
  \/ getter_finishes
  \/ putter_selects
  \/ putter_updates
  \/ putter_inserts
  \/ race_tick

SpecRace == Init /\ [][NextRace]_vars

(* C20: under every interleaving of concurrent get_cached_content and
   cache_content calls on one URL, a get returns None or the whole content of
   one put, and the row in the table is what one put wrote, content and expiry
   together. *)
C20_GetsSeeWholePuts ==
  /\ \A g \in GETTERS : client[g].ret \subseteq {w.content : w \in db.written}
  /\ \A e \in CacheRows(cache, RaceUrl) :
       [content |-> e.content, expires_at |-> e.expires_at] \in db.written
  /\ Cardinality(CacheRows(cache, RaceUrl)) <= 1

\* the race: a get read an expired row, a put refreshed it, and the get's
\* DELETE removed the fresh row, so that the next caller fetches again
C20_Witness ==
  /\ \E g \in GETTERS :
       /\ client[g].pc = "done"
       /\ client[g].seen # {}
       /\ client[g].ret = {}
  /\ \E w \in db.written : w.expires_at >= now
  /\ CacheRows(cache, RaceUrl) = {}

(* ------------------------------------------------------------------ *)
(* Dispatch of a submission (views.py, tasks.py): the view saves the   *)
(* submission, hands it to the Celery task and, when that raises,      *)
(* runs process_article_submission inside the request.  Each process   *)
(* that runs the pipeline holds its own in-memory copy of the          *)
(* submission and saves all of its fields at every save().             *)
(* ------------------------------------------------------------------ *)
\* what the try block around delay() and messages.success() can do: return
\* with the message queued, raise before a message is published, or raise
\* after the message is published
DISPATCH_OUTCOMES == {"queued", "refused", "queued_then_raised"}

RESPONSE_TYPES == {"tweet", "thread", "letter"}

\* extract_article_with_cascade when every strategy fails with a timeout
RECURSIVE AllFail(_, _, _)
AllFail(res, i, url) ==
  IF i > Len(extraction_methods(url)) THEN res
  ELSE AllFail(CascadeStep(res, extraction_methods(url)[i],
                           FetchFailure(FETCH_ERROR, "", "", FALSE)), i + 1, url)

\* the results of extract_article_with_cache a run works with
RunExtractions(url) ==
  {CascadeStep(InitResult, extraction_methods(url)[1],
               FetchSuccess("text1", EmptyMetadata,
                            ArchiveUrlOf(extraction_methods(url)[1]))),
   AllFail(InitResult, 1, url)}

dispatchRest == <<cache, now, pc, ret, runs, runLocals, got, lastPut, entryVars, raceVars,
                  auxVars>>

\* ArticleSubmission.objects.get, status extracting, save
Begun(r) ==
  [runner EXCEPT ![r] = [pc |-> "step1", sub |-> [row EXCEPT !.status = FirstStatus(row)]]]

\* the try block of the submitting view and the start of its fallback
view_dispatches ==
  /\ row.id = 1
  /\ ~broker.sent
  /\ \E o \in DISPATCH_OUTCOMES :
       /\ broker' = [sent |-> TRUE,
                     queue |-> IF o = "refused" THEN broker.queue ELSE broker.queue + 1]
       /\ IF o = "queued"
          THEN UNCHANGED <<runner, row>>
          ELSE runner' = Begun("request") /\ row' = runner'["request"].sub
  /\ UNCHANGED <<critique, responses, dispatchRest>>

\* a worker takes the message: process_article_submission_task starts
worker_receives ==
  /\ broker.queue > 0
  /\ runner["worker"].pc = "idle"
  /\ broker' = [broker EXCEPT !.queue = @ - 1]
  /\ runner' = Begun("worker")
  /\ row' = runner'["worker"].sub
  /\ UNCHANGED <<critique, responses, dispatchRest>>

\* step 1 of a run, up to the save of status analyzing
run_extract(r) ==
  /\ runner[r].pc = "step1"
  /\ LET sub == runner[r].sub
     IN  \E ext \in RunExtractions(sub.original_url) :
           LET after == IF ~NeedsExtraction(sub) THEN sub
                        ELSE IF ext.success THEN WithExtraction(sub, ext)
                        ELSE WithExtractionFailure(sub, ext)
               saved == IF after.status = "failed" THEN after
                        ELSE IF after.extracted_text = ""
                        THEN [after EXCEPT !.status = "failed",
                                !.error_message =
                                  <<"No article content available for analysis">>]
                        ELSE [after EXCEPT !.status = "analyzing"]
           IN  /\ row' = saved
               /\ runner' = [runner EXCEPT ![r] =
                    [pc |-> IF saved.status = "failed" THEN "done" ELSE "analyze",
                     sub |-> saved]]
  /\ UNCHANGED <<critique, responses, broker, dispatchRest>>

\* step 2 of a run: the critique is generated and created, status generating
run_analyze(r) ==
  /\ runner[r].pc = "analyze"
  /\ LET sub == runner[r].sub
     IN  \E o \in API_OUTCOMES \cup {[kind |-> "error", error |-> "overloaded"]} :
           LET res == generate_article_critique(sub.extracted_text, o)
               message == IF res.raised THEN res.message ELSE IntegrityError
           IN  IF res.raised \/ critique
               THEN /\ row' = HandlerFields(sub, message)
                    /\ runner' = [runner EXCEPT ![r] = [pc |-> "done", sub |-> row']]
                    /\ UNCHANGED critique
               ELSE /\ critique' = TRUE
                    /\ row' = [sub EXCEPT !.status = "generating"]
                    /\ runner' = [runner EXCEPT ![r] = [pc |-> "generate", sub |-> row']]
  /\ UNCHANGED <<responses, broker, dispatchRest>>

\* step 3 of a run: the guarded generator blocks, then status completed
run_generate(r) ==
  /\ runner[r].pc = "generate"
  /\ \E made \in SUBSET RESPONSE_TYPES : responses' = responses \cup made
  /\ row' = [runner[r].sub EXCEPT !.status = "completed"]
  /\ runner' = [runner EXCEPT ![r] = [pc |-> "done", sub |-> row']]
  /\ UNCHANGED <<critique, broker, dispatchRest>>

worker_extracts == run_extract("worker")
worker_analyzes == run_analyze("worker")
worker_generates == run_generate("worker")
request_extracts == run_extract("request")
request_analyzes == run_analyze("request")
request_generates == run_generate("request")

NextDispatch ==
  \/ submit_article_url
  \/ submit_article_text
  \/ view_dispatches
  \/ worker_receives
  \/ worker_extracts
  \/ worker_analyzes
  \/ worker_generates
  \/ request_extracts
  \/ request_analyzes
  \/ request_generates

SpecDispatch == Init /\ [][NextDispatch]_vars

\* the processes that are inside process_article_submission
Running == {r \in RUNNERS : runner[r].pc \notin {"idle", "done"}}

(* C19: whatever the view's dispatch and its synchronous fallback do, at most
   one run of process_article_submission is in progress for the submission at
   any moment *)
C19_OneRunAtATime == Cardinality(Running) <= 1

(* ------------------------------------------------------------------ *)
(* The two dispatch paths side by side (views.py, tasks.py): the same  *)
(* submission is processed once by the Celery task, on a database      *)
(* where delay() returned, and once inline, on a database where        *)
(* delay() raised, with the same collaborator outcomes.                *)
(* ------------------------------------------------------------------ *)
\* the rows the two submitting views save
SUBMITTED ==
       {[NewSubmission EXCEPT !.id = 1, !.original_url = url,
                              !.publication = detect_publication(url)] : url \in URLS}
  \cup {[NewSubmission EXCEPT !.id = 1, !.original_url = url,
                              !.title = "user title", !.author = "user author",
                              !.extracted_text = PASTED,
                              !.extraction_method = "manual"] : url \in {"", UrlFT}}

\* what the analysis collaborator can do
ANALYSIS_OUTCOMES == API_OUTCOMES \cup {[kind |-> "error", error |-> "overloaded"]}

\* the generators that succeed
MADE == {{}, {"tweet"}, RESPONSE_TYPES}

\* variant: the task is sent the share id, which names no row
DelayArgument_SendsShareId(sub) == 0

\* process_article_submission_task.delay(submission.id)
DelayArgument(sub) == sub.id

\* process_article_submission(submission.id) in the except branch
InlineArgument(sub) == sub.id

\* the task hands its argument to process_article_submission
process_article_submission_task(submission_id) == submission_id

\* the id a path's run is started with
RunArgument(r, sub) ==
  IF r = "worker" THEN process_article_submission_task(DelayArgument(sub))
  ELSE InlineArgument(sub)

Save(sub) == [op |-> "save", row |-> sub, made |-> {}]
CreateCritique(sub) == [op |-> "create_critique", row |-> sub, made |-> {}]
SaveResponses(sub, made) == [op |-> "save_responses", row |-> sub, made |-> made]

\* what step 1 saves, by the extraction it is given
AfterStep1(sub, ext) ==
  LET after == IF ~NeedsExtraction(sub) THEN sub
               ELSE IF ext.success THEN WithExtraction(sub, ext)
               ELSE WithExtractionFailure(sub, ext)
  IN  IF after.status = "failed" THEN after
      ELSE IF after.extracted_text = ""
      THEN [after EXCEPT !.status = "failed",
                         !.error_message = <<"No article content available for analysis">>]
      ELSE [after EXCEPT !.status = "analyzing"]

equivRest == <<runVars, cache, now, got, lastPut, entryVars, raceVars, dispatchVars,
               pureVars, socialVars, bingo>>

\* the view saves the submission and dispatches: delay() returns on the
\* worker's path and raises on the request's
equiv_submits ==
  /\ ~script.set
  /\ \E sub \in SUBMITTED, api_key \in BOOLEAN, api \in ANALYSIS_OUTCOMES, made \in MADE :
       \E ext \in RunExtractions(sub.original_url) :
         /\ script' = [set |-> TRUE, ext |-> ext, api_key |-> api_key, api |-> api,
                       made |-> made]
         /\ path' = [r \in RUNNERS |-> [IdlePath EXCEPT !.pc = "dispatched", !.db = sub]]
  /\ UNCHANGED equivRest

\* the run starts on a path: the row is loaded by the id it was given
path_begin(r) ==
  /\ path[r].pc = "dispatched"
  /\ IF path[r].db.id # RunArgument(r, path[r].db)
     THEN path' = [path EXCEPT ![r].pc = "done"]
     ELSE LET sub == [path[r].db EXCEPT !.status = FirstStatus(path[r].db)]
          IN  path' = [path EXCEPT ![r].pc = "step1", ![r].sub = sub, ![r].db = sub,
                                   ![r].writes = Append(@, Save(sub))]
  /\ UNCHANGED <<script, equivRest>>

\* step 1 on a path
path_extract(r) ==
  /\ path[r].pc = "step1"
  /\ LET saved == AfterStep1(path[r].sub, script.ext)
     IN  path' = [path EXCEPT ![r].pc = IF saved.status = "failed" THEN "done"
                                        ELSE "analyze",
                              ![r].sub = saved, ![r].db = saved,
                              ![r].writes = Append(@, Save(saved))]
  /\ UNCHANGED <<script, equivRest>>

\* step 2 on a path
path_analyze(r) ==
  /\ path[r].pc = "analyze"
  /\ LET sub == path[r].sub
         res == generate_article_critique(sub.extracted_text, script.api)
         message == IF ~script.api_key THEN <<"ANTHROPIC_API_KEY not configured">>
                    ELSE IF res.raised THEN res.message ELSE IntegrityError
         failed == HandlerFields(sub, message)
         next == [sub EXCEPT !.status = "generating"]
     IN  IF ~script.api_key \/ res.raised \/ path[r].critique
         THEN path' = [path EXCEPT ![r].pc = "done", ![r].sub = failed, ![r].db = failed,
                                   ![r].writes = Append(@, Save(failed))]
         ELSE path' = [path EXCEPT ![r].pc = "generate", ![r].sub = next, ![r].db = next,
                                   ![r].critique = TRUE,
                                   ![r].writes = @ \o <<CreateCritique(sub), Save(next)>>]
  /\ UNCHANGED <<script, equivRest>>

\* step 3 on a path
path_generate(r) ==
  /\ path[r].pc = "generate"
  /\ LET sub == [path[r].sub EXCEPT !.status = "completed"]
     IN  path' = [path EXCEPT ![r].pc = "done", ![r].sub = sub, ![r].db = sub,
                              ![r].writes = @ \o <<SaveResponses(path[r].sub, script.made),
                                                   Save(sub)>>]
  /\ UNCHANGED <<script, equivRest>>

task_begins == path_begin("worker")
task_extracts == path_extract("worker")
task_analyzes == path_analyze("worker")
task_generates == path_generate("worker")
inline_begins == path_begin("request")
inline_extracts == path_extract("request")
inline_analyzes == path_analyze("request")
inline_generates == path_generate("request")

NextEquiv ==
  \/ equiv_submits
  \/ task_begins
  \/ task_extracts
  \/ task_analyzes
  \/ task_generates
  \/ inline_begins
  \/ inline_extracts
  \/ inline_analyzes
  \/ inline_generates

SpecEquiv == Init /\ [][NextEquiv]_vars

C21_IsPrefix(a, b) == Len(a) <= Len(b) /\ SubSeq(b, 1, Len(a)) = a

(* C21: for the same submission and the same collaborator outcomes the run
   through the Celery task and the inline run persist the same sequence of
   writes: at every moment one path's writes are a prefix of the other's, and
   two finished paths have written the same sequence *)
C21_PathsWriteAlike ==
  /\ C21_IsPrefix(path["worker"].writes, path["request"].writes)
       \/ C21_IsPrefix(path["request"].writes, path["worker"].writes)
  /\ (path["worker"].pc = "done" /\ path["request"].pc = "done")
       => path["worker"].writes = path["request"].writes

\* both paths have finished a run that went through all three steps
C21_Witness ==
  /\ path["worker"].pc = "done" /\ path["request"].pc = "done"
  /\ path["worker"].db.status = "completed"
  /\ Len(path["request"].writes) = 6

(* ------------------------------------------------------------------ *)
(* Text heuristics and the fetchers' success tests (extractors.py).    *)
(* A text is a sequence of runs: n whitespace characters, n characters *)
(* of body text holding no phrase, or one phrase in some letter case.  *)
(* ------------------------------------------------------------------ *)
PAYWALL_INDICATORS ==
  <<"subscribe to read", "subscription required", "premium content", "members only",
    "to continue reading", "sign up to read", "register to continue",
    "unlock this article", "exclusive content", "join to read", "become a member",
    "subscriber exclusive", "for subscribers only", "start your free trial",
    "already a subscriber">>

\* `position < 500` in detect_paywall_in_content
EarlyChars == 500

\* `len(text.strip()) < 300` in detect_paywall_in_content
MinStripped == 300

\* `len(text) > 300` in the mirror and proxy fetchers
MinMirror == 300

Space(n) == [kind |-> "space", n |-> n, phrase |-> ""]
Words(n) == [kind |-> "words", n |-> n, phrase |-> ""]
Phrase(p) == [kind |-> "phrase", n |-> Len(p), phrase |-> p]

\* str.lower() on the phrases that occur in the texts
LowerPhrase(p) ==
  CASE p = "SUBSCRIBE TO READ" -> "subscribe to read"
    [] p = "Members Only" -> "members only"
    [] OTHER -> p

\* text.lower()
LowerText(text) ==
  [i \in DOMAIN text |-> IF text[i].kind = "phrase" THEN Phrase(LowerPhrase(text[i].phrase))
                         ELSE text[i]]

\* len(text)
RECURSIVE TextLen(_)
TextLen(text) == IF text = <<>> THEN 0 ELSE Head(text).n + TextLen(Tail(text))

RECURSIVE LStrip(_)
LStrip(text) ==
  IF text # <<>> /\ Head(text).kind = "space" THEN LStrip(Tail(text)) ELSE text

RECURSIVE RStrip(_)
RStrip(text) ==
  IF text # <<>> /\ text[Len(text)].kind = "space"
  THEN RStrip(SubSeq(text, 1, Len(text) - 1)) ELSE text

\* text.strip()
Strip(text) == RStrip(LStrip(text))

\* text.find(indicator): index of the first occurrence, -1 when there is none
RECURSIVE FindFrom(_, _, _)
FindFrom(text, indicator, offset) ==
  IF text = <<>> THEN -1
  ELSE IF Head(text).kind = "phrase" /\ Head(text).phrase = indicator THEN offset
  ELSE FindFrom(Tail(text), indicator, offset + Head(text).n)

Find(text, indicator) == FindFrom(text, indicator, 0)

\* variant: a phrase counts wherever it occurs
detect_paywall_in_content_AnyPosition(text) ==
  \/ \E i \in DOMAIN PAYWALL_INDICATORS : Find(LowerText(text), PAYWALL_INDICATORS[i]) >= 0
  \/ TextLen(Strip(text)) < MinStripped

detect_paywall_in_content(text) ==
  LET text_lower == LowerText(text)
  IN  \/ \E i \in DOMAIN PAYWALL_INDICATORS :
           /\ Find(text_lower, PAYWALL_INDICATORS[i]) >= 0
           /\ Find(text_lower, PAYWALL_INDICATORS[i]) < EarlyChars
      \/ TextLen(Strip(text)) < MinStripped

\* the error a mirror or proxy fetcher reports for a page without enough text
TooShort(method) ==
  CASE method = "archive_ph" -> "Archive found but content too short"
    [] method = "removepaywall" -> "RemovePaywall returned insufficient content"
    [] method = "wayback" -> "Wayback archive content too short"
    [] method = "12ft" -> "12ft.io returned insufficient content"

\* fetch_direct for a page whose extracted text is `text`
direct_page(url, text) ==
  IF text # <<>>
  THEN IF detect_paywall_in_content(text)
       THEN FetchFailure(None, text, "", TRUE)
       ELSE FetchSuccess(text, EmptyMetadata, "")
  ELSE FetchFailure("Could not extract article content", <<>>, "", is_likely_paywalled(url))

\* variant: a mirror reports success for whatever the page holds
mirror_page_NoLengthTest(method, text) ==
  FetchSuccess(text, EmptyMetadata, ArchiveUrlOf(method))

\* a mirror or proxy fetcher for a page whose extracted text is `text`
mirror_page(method, text) ==
  IF text # <<>> /\ TextLen(text) > MinMirror
  THEN FetchSuccess(text, EmptyMetadata, ArchiveUrlOf(method))
  ELSE FetchFailure(TooShort(method), <<>>, ArchiveUrlOf(method), FALSE)

InvokeOnPage(method_name, url, text) ==
  IF method_name = "direct" THEN direct_page(url, text) ELSE mirror_page(method_name, text)

\* extract_article_with_cascade when the strategies in `down` time out and
\* the others are served a page with the text
RECURSIVE CascadeOver(_, _, _, _, _)
CascadeOver(res, i, url, text, down) ==
  LET method_name == extraction_methods(url)[i]
      method_result == IF method_name \in down
                       THEN FetchFailure(FETCH_ERROR, <<>>, "", FALSE)
                       ELSE InvokeOnPage(method_name, url, text)
      next == CascadeStep(res, method_name, method_result)
  IN  IF CascadeLeaves(next, i, url) THEN next
      ELSE CascadeOver(next, i + 1, url, text, down)

METHOD_NAMES == {"direct", "archive_ph", "removepaywall", "wayback", "12ft"}

\* run lengths around the thresholds, and the phrases placed between them
LEADS == {0, 2}
BEFORE == {0, 299, 300, 301, 499, 500}
FIRST_PHRASES == {"", "subscribe to read", "SUBSCRIBE TO READ", "subscribers"}
BETWEEN == {0, 282, 283, 284}
SECOND_PHRASES == {"", "Members Only"}

Run(seg, n) == IF n = 0 THEN <<>> ELSE <<seg>>
PhraseRun(p) == IF p = "" THEN <<>> ELSE <<Phrase(p)>>

MakeText(lead, a, p, b, q, trail) ==
  Run(Space(lead), lead) \o Run(Words(a), a) \o PhraseRun(p) \o Run(Words(b), b)
    \o PhraseRun(q) \o Run(Space(trail), trail)

TEXTS ==
  {MakeText(lead, a, p, b, q, trail) :
     lead \in LEADS, a \in BEFORE, p \in FIRST_PHRASES, b \in BETWEEN,
     q \in SECOND_PHRASES, trail \in LEADS}

PAGE_URLS == {UrlFT, UrlBBC}

InitText == InitCore /\ InitProc /\ arg \in TEXTS /\ NoResults

textRest == <<row, critique, responses, pc, submission, extraction, idx, critique_data,
              ret, runs, calls, outcomes, lookups, analysed, startText, raised, genRaised,
              cache, now, got, lastPut, entryVars, raceVars, dispatchVars, equivVars,
              socialVars, bingo>>

\* detect_paywall_in_content is applied to the text
apply_detect_paywall ==
  /\ verdict = {}
  /\ verdict' = {detect_paywall_in_content(arg)}
  /\ UNCHANGED <<arg, out, result, textRest>>

\* a strategy fetcher is served a page whose paragraphs join to the text
\* (get_text(strip=True) leaves no whitespace at the ends)
fetcher_reads_page ==
  /\ arg = Strip(arg)
  /\ \E method_name \in METHOD_NAMES, url \in PAGE_URLS :
       out' = {[method |-> method_name, url |-> url,
                result |-> InvokeOnPage(method_name, url, arg)]}
  /\ UNCHANGED <<arg, verdict, result, textRest>>

\* the cascade runs over mirrors of the page, some of which time out
cascade_reads_page ==
  /\ arg = Strip(arg)
  /\ result = InitResult
  /\ \E url \in PAGE_URLS, down \in SUBSET METHOD_NAMES :
       result' = CascadeOver(InitResult, 1, url, arg, down)
  /\ UNCHANGED <<arg, out, verdict, textRest>>

NextText ==
  \/ apply_detect_paywall
  \/ fetcher_reads_page
  \/ cascade_reads_page

SpecText == InitText /\ [][NextText]_vars

\* the positions at which an indicator phrase starts in the text
C22_PhraseStarts(text) ==
  {TextLen(SubSeq(text, 1, i - 1)) : i \in {j \in DOMAIN text :
     /\ text[j].kind = "phrase"
     /\ \E k \in DOMAIN PAYWALL_INDICATORS : LowerPhrase(text[j].phrase) = PAYWALL_INDICATORS[k]}}

(* C22: every strategy fetcher reports success exactly when the extracted
   text is longer than 300 characters and no indicator phrase starts within
   its first 500 characters *)
C22_UniformCriterion ==
  \A r \in out :
    r.result.success <=> /\ TextLen(arg) > 300
                         /\ \A pos \in C22_PhraseStarts(arg) : pos >= 500

\* the positions at which an indicator phrase starts in the text, in any case
C23_IndicatorStarts(text) ==
  {TextLen(SubSeq(text, 1, i - 1)) : i \in {j \in DOMAIN text :
     /\ text[j].kind = "phrase"
     /\ \E k \in DOMAIN PAYWALL_INDICATORS :
          LowerPhrase(text[j].phrase) = PAYWALL_INDICATORS[k]}}

(* C23: detect_paywall_in_content is true for every text whose stripped length
   is below 300, true for every text of at least that length with an indicator
   phrase starting in the first 500 characters, and false for a text of at
   least that length whose indicator phrases all start at character 500 or
   later *)
C23_DetectPaywall ==
  verdict # {} =>
    LET long == TextLen(Strip(arg)) >= 300
        early == \E pos \in C23_IndicatorStarts(arg) : pos < 500
    IN  /\ ~long => verdict = {TRUE}
        /\ (long /\ early) => verdict = {TRUE}
        /\ (long /\ ~early) => verdict = {FALSE}

\* a long text whose only indicator phrase starts at character 500 was not flagged
C23_Witness ==
  /\ verdict = {FALSE}
  /\ C23_IndicatorStarts(arg) = {500}

(* C24: every result with success true that a strategy fetcher or the cascade
   returns has a non-empty text and no error: the fetcher's error is None, the
   cascade's result has no error key *)
C24_SuccessHasText ==
  /\ \A r \in out :
       r.result.success => r.result.text # <<>> /\ r.result.error = None
  /\ result.success => result.text # <<>> /\ "error" \notin DOMAIN result

\* a mirror has returned a success, and the cascade has succeeded after failures
C24_Witness ==
  /\ \E r \in out : r.method = "wayback" /\ r.result.success
  /\ result.success /\ result.errors # <<>>

(* ------------------------------------------------------------------ *)
(* The classifiers applied to hosts and paths of their own             *)
(* (extractors.py detect_publication, is_likely_paywalled; social      *)
(* fetchers.py detect_platform).                                       *)
(* ------------------------------------------------------------------ *)
\* platform_patterns, flattened in iteration order: <<domain, platform>>
platform_patterns ==
  << <<<<"t","w","i","t","t","e","r",".","c","o","m">>, "twitter">>,
     <<<<"x",".","c","o","m">>, "twitter">>,
     <<<<"t",".","c","o">>, "twitter">>,
     <<<<"y","o","u","t","u","b","e",".","c","o","m">>, "youtube">>,
     <<<<"y","o","u","t","u",".","b","e">>, "youtube">>,
     <<<<"m",".","y","o","u","t","u","b","e",".","c","o","m">>, "youtube">>,
     <<<<"f","a","c","e","b","o","o","k",".","c","o","m">>, "facebook">>,
     <<<<"f","b",".","c","o","m">>, "facebook">>,
     <<<<"f","b",".","w","a","t","c","h">>, "facebook">>,
     <<<<"m",".","f","a","c","e","b","o","o","k",".","c","o","m">>, "facebook">>,
     <<<<"i","n","s","t","a","g","r","a","m",".","c","o","m">>, "instagram">>,
     <<<<"i","n","s","t","a","g","r",".","a","m">>, "instagram">>,
     <<<<"t","i","k","t","o","k",".","c","o","m">>, "tiktok">>,
     <<<<"v","m",".","t","i","k","t","o","k",".","c","o","m">>, "tiktok">>,
     <<<<"l","i","n","k","e","d","i","n",".","c","o","m">>, "linkedin">>,
     <<<<"l","n","k","d",".","i","n">>, "linkedin">>,
     <<<<"t","h","r","e","a","d","s",".","n","e","t">>, "threads">>,
     <<<<"b","s","k","y",".","a","p","p">>, "bluesky">>,
     <<<<"b","s","k","y",".","s","o","c","i","a","l">>, "bluesky">>,
     <<<<"m","a","s","t","o","d","o","n",".","s","o","c","i","a","l">>, "mastodon">>,
     <<<<"m","a","s","t","o","d","o","n",".","o","n","l","i","n","e">>, "mastodon">>,
     <<<<"m","s","t","d","n",".","s","o","c","i","a","l">>, "mastodon">>,
     <<<<"r","e","d","d","i","t",".","c","o","m">>, "reddit">>,
     <<<<"r","e","d","d",".","i","t">>, "reddit">>,
     <<<<"o","l","d",".","r","e","d","d","i","t",".","c","o","m">>, "reddit">> >>

\* detect_publication on a URL with this netloc
PublicationOfNetloc(netloc) == FirstPublication(ReplaceWww(Lower(netloc)), 1)

\* is_likely_paywalled on a URL with this netloc
PaywalledNetloc(netloc) ==
  LET domain == ReplaceWww(Lower(netloc))
  IN  \E i \in 1..Len(PAYWALLED_SITES) : Contains(domain, PAYWALLED_SITES[i])

RECURSIVE FirstPlatform(_, _)
FirstPlatform(domain, i) ==
  IF i > Len(platform_patterns) THEN "none"
  ELSE IF Contains(domain, platform_patterns[i][1]) THEN platform_patterns[i][2]
       ELSE FirstPlatform(domain, i + 1)

\* detect_platform on a URL with this netloc and path
detect_platform(netloc, url_path) ==
  LET domain == ReplaceWww(Lower(netloc))
      parsed_path == Lower(url_path)
  IN  IF FirstPlatform(domain, 1) # "none" THEN FirstPlatform(domain, 1)
      ELSE IF Contains(parsed_path, <<"/","u","s","e","r","s","/">>) \/ Contains(parsed_path, <<"/","@">>)
      THEN "mastodon"
      ELSE "other"

\* the hosts: a registered name, alone or under a subdomain
BASE_HOSTS ==
  {<<"f","t",".","c","o","m">>,
   <<"F","T",".","c","o","m">>,
   <<"m","i","c","r","o","s","o","f","t",".","c","o","m">>,
   <<"b","b","c",".","c","o",".","u","k">>,
   <<"s","k","y",".","c","o","m">>,
   <<"e","x","a","m","p","l","e",".","o","r","g">>,
   <<"r","e","d","d","i","t",".","c","o","m">>,
   <<"x",".","c","o","m">>,
   <<"n","e","t","f","l","i","x",".","c","o","m">>,
   <<"t",".","c","o">>,
   <<"b","s","k","y",".","a","p","p">>}

SUBDOMAINS ==
  {<<>>, <<"w","w","w",".">>, <<"W","W","W",".">>, <<"n","e","w","s",".">>, <<"m",".">>}

CLASSIFY_PATHS ==
  {<<"/","a">>, <<"/","@","u","s","e","r","/","1">>, <<"/","u","s","e","r","s","/","u">>}

CLASSIFY_URLS ==
  {[netloc |-> sub \o base, path |-> url_path] :
     sub \in SUBDOMAINS, base \in BASE_HOSTS, url_path \in CLASSIFY_PATHS}

InitClassify == InitCore /\ InitProc /\ arg \in CLASSIFY_URLS /\ NoResults

classifyRest == <<runVars, cache, now, got, lastPut, entryVars, raceVars, dispatchVars,
                  equivVars, socialVars, bingo>>

apply_detect_publication ==
  /\ \A r \in out : r.fn # "detect_publication"
  /\ out' = out \cup {[fn |-> "detect_publication",
                       value |-> PublicationOfNetloc(arg.netloc)]}
  /\ UNCHANGED <<arg, verdict, classifyRest>>

apply_detect_platform ==
  /\ \A r \in out : r.fn # "detect_platform"
  /\ out' = out \cup {[fn |-> "detect_platform",
                       value |-> detect_platform(arg.netloc, arg.path)]}
  /\ UNCHANGED <<arg, verdict, classifyRest>>

apply_is_likely_paywalled ==
  /\ verdict = {}
  /\ verdict' = {PaywalledNetloc(arg.netloc)}
  /\ UNCHANGED <<arg, out, classifyRest>>

NextClassify ==
  \/ apply_detect_publication
  \/ apply_detect_platform
  \/ apply_is_likely_paywalled

SpecClassify == InitClassify /\ [][NextClassify]_vars

\* the host in lower case without a leading www.
C25_Host(netloc) ==
  LET h == Lower(netloc)
  IN  IF Len(h) >= 4 /\ SubSeq(h, 1, 4) = WwwDot THEN SubSeq(h, 5, Len(h)) ELSE h

\* suffix match: the host is the domain or ends with a dot and the domain
C25_Suffix(host, d) ==
  \/ host = d
  \/ /\ Len(host) > Len(d)
     /\ SubSeq(host, Len(host) - Len(d) + 1, Len(host)) = d
     /\ host[Len(host) - Len(d)] = "."

\* the table entries whose domain is the longest one that suffix-matches
C25_Longest(host, table) ==
  {i \in DOMAIN table :
     /\ C25_Suffix(host, table[i][1])
     /\ \A j \in DOMAIN table :
          C25_Suffix(host, table[j][1]) => Len(table[j][1]) <= Len(table[i][1])}

\* what longest-suffix matching against a table answers
C25_Expected(host, table) ==
  IF C25_Longest(host, table) = {} THEN {"other"}
  ELSE {table[i][2] : i \in C25_Longest(host, table)}

(* C25: the classifiers decide by longest-suffix match of the host, in lower
   case and without a leading www., against their tables: a host that holds a
   table domain only as a substring is not matched to it, and a host matching
   no entry is other / not paywalled *)
C25_SuffixMatch ==
  LET host == C25_Host(arg.netloc)
  IN  /\ \A r \in out :
           /\ r.fn = "detect_publication" => r.value \in C25_Expected(host, PUBLICATION_DOMAINS)
           /\ r.fn = "detect_platform" => r.value \in C25_Expected(host, platform_patterns)
      /\ verdict # {} =>
           verdict = {\E i \in DOMAIN PAYWALLED_SITES : C25_Suffix(host, PAYWALLED_SITES[i])}

(* ------------------------------------------------------------------ *)
(* fetch_twitter_content (social_critique/fetchers.py): oEmbed, then   *)
(* the Nitter instances in list order, then the page's Open-Graph tags.*)
(* ------------------------------------------------------------------ *)
NITTER_INSTANCES ==
  <<"nitter.privacydev.net", "nitter.poast.org", "nitter.woodland.cafe",
    "nitter.esmailelbob.xyz", "nitter.d420.de", "n.opnxng.com">>

SHORT_TWEET == "short post"
LONG_TWEET == "a post of more than twenty characters"

\* `len(tweet_text) > 20`
MinTweet == 20

\* what fetch_twitter_oembed returns: None after a status other than 200 or an
\* exception, else the author and the text of the embed's paragraph
OEMBED_OUTCOMES ==
  {[kind |-> "status", author |-> "", text |-> ""],
   [kind |-> "exception", author |-> "", text |-> ""],
   [kind |-> "page", author |-> "Ann", text |-> ""],
   [kind |-> "page", author |-> "Ann", text |-> SHORT_TWEET],
   [kind |-> "page", author |-> "", text |-> LONG_TWEET]}

\* what the request to a Nitter instance does: it times out, raises, answers
\* with another status, or serves a page with this tweet-content
NITTER_OUTCOMES ==
  {[kind |-> "timeout", author |-> "", text |-> ""],
   [kind |-> "exception", author |-> "", text |-> ""],
   [kind |-> "page", author |-> "", text |-> ""],
   [kind |-> "page", author |-> "Ann", text |-> SHORT_TWEET],
   [kind |-> "page", author |-> "Ann", text |-> LONG_TWEET]}

\* what the request to Twitter does: it raises, answers with another status,
\* or serves a page with these og:title and og:description
DIRECT_OUTCOMES ==
  {[kind |-> "exception", title |-> <<>>, text |-> ""],
   [kind |-> "status", title |-> <<>>, text |-> ""],
   [kind |-> "page", title |-> <<"Ann on X: post">>, text |-> ""],
   [kind |-> "page", title |-> <<"Ann on X: post">>, text |-> SHORT_TWEET]}

ALL_FAILED ==
  "Could not fetch Twitter content. All methods failed (oEmbed, Nitter instances, direct)."

TweetTitle(author) == IF author # "" THEN <<"Tweet by ", author>> ELSE <<"Tweet">>

\* `oembed_data and oembed_data.get('text')`
OembedAccepted(o) == o.kind = "page" /\ o.text # ""

\* `tweet_text and len(tweet_text) > 20` on a page with status 200
NitterAccepted(o) == o.kind = "page" /\ o.text # "" /\ Len(o.text) > MinTweet

\* `if result['text']` after the Open-Graph tags were read
DirectAccepted(o) == o.kind = "page" /\ o.text # ""

Attempt(method, instance, o) ==
  [method |-> method, instance |-> instance, kind |-> o.kind, text |-> o.text]

\* variant: the loop is left after an instance that gave no content
AfterNitter_AbortsOnFailure(i, accepted) == "returned"

\* where fetch_twitter_content goes after a Nitter instance
AfterNitter(i, accepted) ==
  IF accepted THEN "returned"
  ELSE IF i < Len(NITTER_INSTANCES) THEN "nitter" ELSE "direct"

twitterRest == <<runVars, cache, now, got, lastPut, entryVars, raceVars, dispatchVars,
                 equivVars, pureVars, social, bingo>>

call_fetch_twitter_content ==
  /\ twitter.pc = "idle"
  /\ twitter' = [IdleTwitter EXCEPT !.pc = "oembed"]
  /\ UNCHANGED twitterRest

\* method 1: fetch_twitter_oembed
twitter_oembed ==
  /\ twitter.pc = "oembed"
  /\ \E o \in OEMBED_OUTCOMES :
       twitter' =
         IF OembedAccepted(o)
         THEN [twitter EXCEPT !.pc = "returned",
                              !.tried = Append(@, Attempt("oembed", 0, o)),
                              !.result = [@ EXCEPT !.author = o.author, !.text = o.text,
                                                   !.title = TweetTitle(o.author),
                                                   !.description = o.text]]
         ELSE [twitter EXCEPT !.pc = "nitter", !.i = 1,
                              !.tried = Append(@, Attempt("oembed", 0, o))]
  /\ UNCHANGED twitterRest

\* method 2: one iteration of the loop over NITTER_INSTANCES
twitter_nitter ==
  /\ twitter.pc = "nitter"
  /\ \E o \in NITTER_OUTCOMES :
       LET next == AfterNitter(twitter.i, NitterAccepted(o))
           logged == Append(twitter.tried, Attempt("nitter", twitter.i, o))
       IN  twitter' =
             IF NitterAccepted(o)
             THEN [twitter EXCEPT !.pc = next, !.tried = logged,
                                  !.result = [@ EXCEPT !.author = o.author, !.text = o.text,
                                                       !.title = TweetTitle(o.author),
                                                       !.description = o.text]]
             ELSE [twitter EXCEPT !.pc = next, !.tried = logged,
                                  !.i = IF next = "nitter" THEN @ + 1 ELSE @]
  /\ UNCHANGED twitterRest

\* method 3: the Open-Graph tags of the page itself, then the final error
twitter_direct ==
  /\ twitter.pc = "direct"
  /\ \E o \in DIRECT_OUTCOMES :
       LET read == IF o.kind = "page"
                   THEN [twitter.result EXCEPT !.description = o.text, !.text = o.text,
                                               !.title = o.title, !.author = "Ann"]
                   ELSE twitter.result
       IN  twitter' = [twitter EXCEPT
             !.pc = "returned",
             !.tried = Append(@, Attempt("direct", 0, o)),
             !.result = IF DirectAccepted(o) THEN read
                        ELSE [read EXCEPT !.error = ALL_FAILED]]
  /\ UNCHANGED twitterRest

\* the caller takes the result; the next call starts afresh
twitter_returns ==
  /\ twitter.pc = "returned"
  /\ twitter' = IdleTwitter
  /\ UNCHANGED twitterRest

NextTwitter ==
  \/ call_fetch_twitter_content
  \/ twitter_oembed
  \/ twitter_nitter
  \/ twitter_direct
  \/ twitter_returns

SpecTwitter == Init /\ [][NextTwitter]_vars

\* the sub-methods in the order the claim gives them
C26_Order ==
  <<[method |-> "oembed", instance |-> 0]>>
    \o [i \in 1..6 |-> [method |-> "nitter", instance |-> i]]
    \o <<[method |-> "direct", instance |-> 0]>>

\* the attempts follow the order, none skipped and none repeated
C26_InOrder ==
  /\ Len(twitter.tried) <= Len(C26_Order)
  /\ \A k \in DOMAIN twitter.tried :
       /\ twitter.tried[k].method = C26_Order[k].method
       /\ twitter.tried[k].instance = C26_Order[k].instance

(* C26: fetch_twitter_content tries oEmbed, then each Nitter instance in list
   order, then the direct fetch; it returns at the first sub-method that yields
   text, a failing sub-method never ends the fetch, and the result carries an
   error only when every sub-method has failed to yield text *)
C26_FirstYieldReturns ==
  /\ C26_InOrder
  /\ \A k \in DOMAIN twitter.tried :
       twitter.tried[k].text # "" => twitter.pc = "returned" /\ k = Len(twitter.tried)
  /\ twitter.pc = "returned" =>
       LET last == twitter.tried[Len(twitter.tried)]
       IN  /\ twitter.result.error = None <=> last.text # ""
           /\ twitter.result.error = None => twitter.result.text = last.text
           /\ twitter.result.error # None => Len(twitter.tried) = Len(C26_Order)

\* whether an attempt yielded text the fetcher uses: any text from oEmbed and
\* from the direct fetch, more than 20 characters from a Nitter instance
C26_Usable(a) ==
  a.text # "" /\ (a.method = "nitter" => Len(a.text) > 20)

(* C26 as amended: the same, with a Nitter instance counting as yielding text
   only when its tweet text is longer than 20 characters *)
C26_FirstUsableReturns ==
  /\ C26_InOrder
  /\ \A k \in DOMAIN twitter.tried :
       C26_Usable(twitter.tried[k]) => twitter.pc = "returned" /\ k = Len(twitter.tried)
  /\ twitter.pc = "returned" =>
       LET last == twitter.tried[Len(twitter.tried)]
       IN  /\ twitter.result.error = None <=> C26_Usable(last)
           /\ twitter.result.error = None => twitter.result.text = last.text
           /\ twitter.result.error # None => Len(twitter.tried) = Len(C26_Order)

\* the third Nitter instance gave the text after a timeout, an exception and
\* a short text elsewhere
C26_Witness ==
  /\ twitter.pc = "returned"
  /\ Len(twitter.tried) = 4
  /\ twitter.result.error = None
  /\ twitter.result.text = LONG_TWEET
  /\ twitter.tried[1].kind = "exception"
  /\ twitter.tried[2].kind = "timeout"
  /\ twitter.tried[3].text = SHORT_TWEET

(* ------------------------------------------------------------------ *)
(* The social critique pipeline (social_critique/services.py           *)
(* process_social_critique, forms.py SocialCritiqueSubmitForm).        *)
(* ------------------------------------------------------------------ *)
TRANSCRIPT == "pasted transcript"

NO_CONTENT == "Content could not be extracted from URL"

\* what generate_critique_with_claude does: a parsed answer, the fallback
\* answer after a JSON error, or the exception it re-raises
CLAUDE_OUTCOMES == {"ok", "bad_json", "error"}

socialRest == <<runVars, cache, now, got, lastPut, entryVars, raceVars, dispatchVars,
                equivVars, pureVars, twitter, bingo>>

\* SocialCritiqueSubmitForm.save: url and manual_transcript from the form,
\* platform detected from the URL
submit_social_critique ==
  /\ social.critique.id = 0
  /\ \E url \in SOCIAL_URLS \cup {UrlFT, UrlMicrosoft}, manual_transcript \in {"", TRANSCRIPT} :
       social' = [social EXCEPT !.critique =
                    [NewSocialCritique EXCEPT !.id = 1, !.url = url,
                                              !.manual_transcript = manual_transcript,
                                              !.platform = detect_platform(Netloc(url), <<>>)]]
  /\ UNCHANGED socialRest

\* the row is loaded, status fetching, saved
process_social_begin ==
  /\ social.pc = "idle"
  /\ social.critique.id = 1
  /\ social.critique.status = "submitted"
  /\ social' = [social EXCEPT !.pc = "fetch", !.critique.status = "fetching"]
  /\ UNCHANGED socialRest

\* the except-handler of process_social_critique
SocialHandler(message) ==
  [social EXCEPT !.pc = "done", !.critique.status = "failed",
                 !.critique.error_message = message]

\* step 1: fetch_with_cache, whose cache write raises on a content with a
\* datetime, then the error test and the copy of the content into the row
process_social_fetch ==
  /\ social.pc = "fetch"
  /\ \E content \in fetch_url_content(social.critique.url) :
       IF SocialMeaningful(content) /\ ~SocialSerializable(content)
       THEN social' = [SocialHandler(JsonTypeError) EXCEPT !.fetch_raised = TRUE]
       ELSE IF content.error # None
       THEN social' = [social EXCEPT !.pc = "done", !.fetched = {content},
                                     !.critique.status = "failed",
                                     !.critique.error_message = <<content.error>>]
       ELSE social' = [social EXCEPT !.pc = "analyze", !.fetched = {content},
                                     !.critique.source_text = content.text,
                                     !.critique.status = "processing"]
  /\ UNCHANGED socialRest

\* `critique.source_text or critique.source_description`, then the title or
\* the fixed text (the modelled contents carry no description and no title)
analysis_content(critique_row) ==
  IF critique_row.source_text # "" THEN critique_row.source_text ELSE NO_CONTENT

\* step 2 and step 3: the critique is generated and stored, the guarded reply
\* generators run, status completed
process_social_analyze ==
  /\ social.pc = "analyze"
  /\ \E api_key \in BOOLEAN, o \in CLAUDE_OUTCOMES :
       IF ~api_key
       THEN social' = SocialHandler(<<"ANTHROPIC_API_KEY not configured">>)
       ELSE IF o = "error"
       THEN social' = [SocialHandler(<<"Error generating critique: ", API_ERROR>>)
                         EXCEPT !.analysed = {analysis_content(social.critique)}]
       ELSE social' = [social EXCEPT !.pc = "done", !.critique.status = "completed",
                                     !.analysed = {analysis_content(social.critique)},
                                     !.response = {IF o = "ok" THEN "summary"
                                                   ELSE "Error parsing AI response"}]
  /\ UNCHANGED socialRest

\* the finished critique is removed: the next one is submitted afresh
social_forgotten ==
  /\ social.pc = "done"
  /\ social' = IdleSocial
  /\ UNCHANGED socialRest

NextSocial ==
  \/ submit_social_critique
  \/ process_social_begin
  \/ process_social_fetch
  \/ process_social_analyze
  \/ social_forgotten

SpecSocial == Init /\ [][NextSocial]_vars

\* automatic fetching failed in the run: fetch_with_cache returned an error or
\* raised
C27_FetchFailed ==
  social.fetch_raised \/ \E content \in social.fetched : content.error # None

(* C27: when a social critique was submitted with a non-empty
   manual_transcript and automatic fetching fails, the finished run has
   analysed the transcript and has not ended with status failed because of the
   fetch *)
C27_TranscriptUsed ==
  (social.pc = "done" /\ social.critique.manual_transcript # "" /\ C27_FetchFailed)
    => social.analysed = {social.critique.manual_transcript}

(* ------------------------------------------------------------------ *)
(* Bingo (bingo/services.py): mark_square and check_bingo_completion   *)
(* on one card of 25 squares, positions 0..24.                         *)
(* ------------------------------------------------------------------ *)
MaxMarkCalls == 5

POSITIONS == 0..24

\* grid.get(position, False)
GridGet(marked, position) == position \in marked

check_bingo_completion(marked) ==
  \/ \E r \in 0..4 : \A col \in 0..4 : GridGet(marked, r * 5 + col)
  \/ \E col \in 0..4 : \A r \in 0..4 : GridGet(marked, r * 5 + col)
  \/ \A i \in 0..4 : GridGet(marked, i * 5 + i)
  \/ \A i \in 0..4 : GridGet(marked, i * 5 + (4 - i))

\* variant: the points are awarded whenever the card shows a line
Awards_WheneverComplete(is_complete, completed) == is_complete

\* `if is_complete and not card.completed`
Awards(is_complete, completed) == is_complete /\ ~completed

bingoRest == <<runVars, cache, now, got, lastPut, entryVars, raceVars, dispatchVars,
               equivVars, pureVars, socialVars>>

\* mark_square(square_id, user) by the card's owner
mark_square ==
  /\ bingo.calls < MaxMarkCalls
  /\ \E position \in POSITIONS :
       IF position \in bingo.marked
       THEN bingo' = [bingo EXCEPT !.calls = @ + 1]
       ELSE LET marked == bingo.marked \cup {position}
                is_complete == check_bingo_completion(marked)
            IN  IF Awards(is_complete, bingo.completed)
                THEN bingo' = [bingo EXCEPT !.calls = @ + 1, !.marked = marked,
                                            !.completed = TRUE, !.points = @ + 100,
                                            !.awards = @ + 1]
                ELSE bingo' = [bingo EXCEPT !.calls = @ + 1, !.marked = marked]
  /\ UNCHANGED bingoRest

NextBingo == mark_square

SpecBingo == Init /\ [][NextBingo]_vars

\* the twelve lines of the card
C28_Lines ==
  {{5 * r + c : c \in 0..4} : r \in 0..4} \cup {{5 * r + c : r \in 0..4} : c \in 0..4}
    \cup {{0, 6, 12, 18, 24}, {4, 8, 12, 16, 20}}

C28_HasLine == \E line \in C28_Lines : line \subseteq bingo.marked

(* C28: over any sequence of mark_square calls on one card, the card is marked
   completed and the owner's points are increased by 100 exactly once, by the
   first call that produces a line of five marked squares: before there is a
   line no points were awarded, and from then on exactly 100 were, however many
   squares are marked or marked again *)
C28_AwardedOnce ==
  /\ bingo.completed <=> C28_HasLine
  /\ bingo.points = IF C28_HasLine THEN 100 ELSE 0
  /\ bingo.awards = IF C28_HasLine THEN 1 ELSE 0

\* a line was completed by the fourth call and a further square was marked
C28_Witness ==
  /\ bingo.calls = 5
  /\ {10, 11, 12, 13, 14} \subseteq bingo.marked
  /\ Cardinality(bingo.marked) = 6
  /\ bingo.points = 100

(* ------------------------------------------------------------------ *)
(* Termination of a run: the steps of a started run are taken as long  *)
(* as one is enabled (every collaborator call returns or raises: the   *)
(* fetchers pass a timeout to every request).                          *)
(* ------------------------------------------------------------------ *)
RunStep ==
  \/ process_skip_extraction
  \/ process_call_extract
  \/ cascade_try
  \/ cache_write_through
  \/ process_apply_extraction
  \/ process_analyze
  \/ generate_tweet
  \/ generate_thread
  \/ generate_letter
  \/ process_complete

\* a submission is made and runs are started on it, the first and the retries
NextLive ==
  \/ submit_article_url
  \/ submit_article_text
  \/ process_begin
  \/ RunStep

\* a step of the run is enabled exactly while the run has not returned
RunEnabled == pc # "none"

\* weak fairness of the run's steps, WF_vars(RunStep), written with the
\* enabling condition of RunStep: a run that has not returned takes a step
RunFairness == []<>(~RunEnabled) \/ []<><<RunStep>>_vars

SpecLive == Init /\ [][NextLive]_vars /\ RunFairness

\* the enabling condition used in RunFairness is that of RunStep
C29_RunEnabledIsEnabled == RunEnabled <=> ENABLED <<RunStep>>_vars

(* C29: every run of process_article_submission on an existing submission
   ends, and when it has ended the persisted status is completed or failed,
   never extracting, analyzing or generating, whatever the cascade, the
   analysis and the generators returned or raised *)
C29_RunsEndCompletedOrFailed ==
  /\ [](pc # "none" => <>(pc = "none" /\ row.status \in {"completed", "failed"}))
  /\ [](RunFinished => row.status \in {"completed", "failed"})

\* a run that reached the analysis has ended in the except-handler
C29_Witness ==
  /\ RunFinished
  /\ raised # NoException
  /\ row.status = "failed"
  /\ row.extracted_text # ""

(* ------------------------------------------------------------------ *)
(* The error message of a completed submission                         *)
(* ------------------------------------------------------------------ *)
(* C30: whenever the persisted status of a submission is completed, its
   error_message is empty, also when the completing run is a retry that
   follows an earlier failed run of the same submission *)
C30_CompletedHasNoError ==
  row.status = "completed" => row.error_message = <<>>

====
